---- MODULE Spec2Model ----
(***************************************************************************)
(* The artifact scanning session of yas-genshin: the driver thread         *)
(* (GenshinArtifactScanner::scan / send) pushes one SendItem per traversal *)
(* checkpoint into an mpsc channel, the worker thread                      *)
(* (ArtifactScannerWorker::run) recognises, deduplicates and optionally    *)
(* reports each result back for the auto-lock action.                      *)
(*                                                                         *)
(* Strings are sequences of one-character strings, Option values are       *)
(* records with a field "some", Result values records with a field "ok".   *)
(***************************************************************************)
EXTENDS Integers, Sequences, FiniteSets, TLC

(***************************************************************************)
(* Bounds of the model.                                                    *)
(***************************************************************************)
\* the largest item count a session is configured with
MaxCount == 4
\* the largest item count of the sessions checked for termination
MaxLiveCount == 3
\* cells visited in the sessions that go beyond the first page
MaxPageCount == 5
\* checkpoints followed in the sessions whose count comes from get_item_count
MaxFollowed == 3
\* the windows and inventories get_start_row is applied to on its own
MaxRows == 4
MaxCols == 5
MaxTotal == 20

(***************************************************************************)
(* Configuration values read by the code (window info and scanner config). *)
(***************************************************************************)
\* window_info.row / window_info.col: the grid shown on one page
Row == 2
Col == 2
\* gap.height + size.height of one grid cell, the window height and the
\* vertical scan margin, in the units of the list image
ItemPitch == 10
WindowHeight == 28
\* a window too low to show the second row of the grid
ShortWindowHeight == 12
MarginY == 5
\* scanner_config.min_star and scanner_config.min_level
MinStar == 4
\* window_info.blessed_frost_offset_y, and the height and the number of
\* pixels of window_info.blessed_frost_detect_rect
BlessedFrostOffsetY == 3
FrostDetectHeight == 2
FrostDetectPixels == 10
MinLevel == 4
\* i32::MAX, the range of the parsed level
I32Max == 2147483647
MAX_COUNT == 2400

(***************************************************************************)
(* Small helpers.                                                          *)
(***************************************************************************)
Min(a, b) == IF a <= b THEN a ELSE b

None == [some |-> FALSE]
Some(v) == [some |-> TRUE, val |-> v]

Front(s, n) == SubSeq(s, 1, n)

(***************************************************************************)
(* Strings: trim and integer parsing as the Rust standard library does.    *)
(***************************************************************************)
\* char::is_whitespace, for the characters that occur
IsSpace(c) == c \in {" ", "\t", "\n"}

RECURSIVE TrimStart(_)
TrimStart(s) ==
    IF s # <<>> /\ IsSpace(Head(s)) THEN TrimStart(Tail(s)) ELSE s

RECURSIVE TrimEnd(_)
TrimEnd(s) ==
    IF s # <<>> /\ IsSpace(s[Len(s)]) THEN TrimEnd(Front(s, Len(s) - 1)) ELSE s

\* str::trim
\* variant: only the leading whitespace removed
Trim_StartOnly(s) == TrimStart(s)

Trim(s) == TrimEnd(TrimStart(s))

Digits == <<"0", "1", "2", "3", "4", "5", "6", "7", "8", "9">>

IsDigit(c) == \E d \in 1..10 : Digits[d] = c

DigitVal(c) == (CHOOSE d \in 1..10 : Digits[d] = c) - 1

RECURSIVE DigitsVal(_, _)
DigitsVal(s, acc) ==
    IF s = <<>> THEN acc ELSE DigitsVal(Tail(s), acc * 10 + DigitVal(Head(s)))

\* str::parse::<i32>: an optional sign, then at least one digit, in range
ParseI32(s) ==
    LET signed == s # <<>> /\ Head(s) \in {"+", "-"}
        body == IF signed THEN Tail(s) ELSE s
        neg == signed /\ Head(s) = "-"
    IN  IF body = <<>> \/ \E i \in 1..Len(body) : ~IsDigit(body[i])
        THEN [ok |-> FALSE]
        ELSE LET mag == DigitsVal(body, 0)
                 v == IF neg THEN -mag ELSE mag
             IN  IF v > I32Max \/ v < -I32Max - 1
                 THEN [ok |-> FALSE]
                 ELSE [ok |-> TRUE, val |-> v]

\* str::parse::<usize>: an optional plus sign, then at least one digit (the
\* strings parsed here are too short to overflow)
ParseUsize(s) ==
    LET body == IF s # <<>> /\ Head(s) = "+" THEN Tail(s) ELSE s
    IN  IF body = <<>> \/ \E i \in 1..Len(body) : ~IsDigit(body[i])
        THEN [ok |-> FALSE]
        ELSE [ok |-> TRUE, val |-> DigitsVal(body, 0)]

\* v as i32, for v below 2^32
AsI32(v) == IF v <= I32Max THEN v ELSE v - 2 * (I32Max + 1)

\* str::find('+'): the first index of the separator, 0 when there is none
FindPlus(s) ==
    IF \E i \in 1..Len(s) : s[i] = "+"
    THEN CHOOSE i \in 1..Len(s) : s[i] = "+" /\ \A j \in 1..(i - 1) : s[j] # "+"
    ELSE 0

parse_level(s) ==
    LET pos == FindPlus(s)
    IN  IF pos = 0 THEN ParseI32(s) ELSE ParseI32(SubSeq(s, pos, Len(s)))

(***************************************************************************)
(* What the screen can show at a checkpoint.  A panel image is modelled by *)
(* the text the recognition capability returns for each rectangle the      *)
(* worker reads (Fail: the crop is out of bounds or the model errs); the   *)
(* sampled star is the tier get_star classifies the reference pixel as.    *)
(***************************************************************************)
Txt(s) == [ok |-> TRUE, val |-> s]
Fail == [ok |-> FALSE]

SubStats == <<Txt(<<"x", "+", "1">>), Txt(<<"y", "+", "2">>),
              Txt(<<"z", "+", "3">>), Txt(<<"w", "+", "4">>)>>

\* what the recognition reads in the rectangles moved down by the
\* blessed-frost offset
Shifted(sub_stat, pending, level) ==
    [sub_stat |-> sub_stat, sub_stat_4_pending |-> pending, level |-> level]

\* a panel image: what each recognition call reads in it, and the number of
\* pixels of the marker colour in the blessed-frost detect rectangle
Panel(name, level) ==
    [title |-> name, main_stat_name |-> Txt(<<"h", "p">>),
     main_stat_value |-> Txt(<<"7">>), sub_stat |-> SubStats,
     sub_stat_4_pending |-> Txt(<<"w", "+", "4">>),
     level |-> Txt(level), equip |-> Txt(<<>>),
     frost_match |-> 0,
     shifted |-> Shifted(<<Fail, Fail, Fail, Fail>>, Fail, Fail)]

LevelHigh == <<"+", "2", "0">>
LevelLow == <<"+", "0">>
LevelBad == <<"+", "o">>

\* the captures a checkpoint can produce (panel image and sampled star), in
\* the two inventories a session is run on: distinct items of falling rarity,
\* and items that fail recognition or level parsing or are below the level floor
ItemA == [panel |-> Panel(Txt(<<"a", " ">>), LevelHigh), star |-> 5]
ItemB == [panel |-> Panel(Txt(<<"b">>), LevelHigh), star |-> 5]
ItemC == [panel |-> Panel(Txt(<<"c">>), LevelHigh), star |-> 4]
ItemE == [panel |-> Panel(Txt(<<"e">>), LevelHigh), star |-> 3]
ItemLow == [panel |-> Panel(Txt(<<"b">>), LevelLow), star |-> 5]
ItemBadLevel == [panel |-> Panel(Txt(<<"d">>), LevelBad), star |-> 4]
ItemUnreadable == [panel |-> Panel(Fail, LevelHigh), star |-> 5]

Inventories ==
    { {ItemA, ItemB, ItemC, ItemE},
      {ItemA, ItemLow, ItemBadLevel, ItemUnreadable} }

\* the cells of a captured list image that can show the lock icon
LockPatterns == {{}, {<<0, 1>>}}

\* the captures and lock icon layouts of the sessions that go beyond the
\* first page
PageInventory == {ItemA, ItemUnreadable}
PageLockPatterns == {{}, {<<0, 1>>}, {<<0, 0>>, <<1, 0>>}}

\* the lock-target lists a session can be configured with (None: no list)
LockListEntry(name) ==
    [name |-> name, main_stat_name |-> <<"h", "p">>, main_stat_value |-> <<"7">>,
     sub_stat |-> <<<<"x", "+", "1">>, <<"y", "+", "2">>,
                    <<"z", "+", "3">>, <<"w", "+", "4">>>>]

LockLists == {None, Some(<<LockListEntry(<<" ", "a">>)>>)}

(***************************************************************************)
(* GenshinArtifactScanResult: equality and hash (scan_result.rs).          *)
(***************************************************************************)
\* the fields equality and hash are defined over: everything recognised
\* from the panel, not the lock flag
ContentOf(r) ==
    [name |-> r.name, main_stat_name |-> r.main_stat_name,
     main_stat_value |-> r.main_stat_value, sub_stat |-> r.sub_stat,
     level |-> r.level, equip |-> r.equip]

\* variant: equality over every field, the lock flag included
ResultEq_AllFields(a, b) == a = b

ResultEq(a, b) == ContentOf(a) = ContentOf(b)

\* HashSet::contains
HashContains(h, r) == \E x \in h : ResultEq(x, r)

\* variant: the record is not added to the set
HashInsert_Skip(h, r) == h

\* HashSet::insert
HashInsert(h, r) == IF HashContains(h, r) THEN h ELSE h \cup {r}

(***************************************************************************)
(* LockList::contains (lock_list.rs).                                      *)
(***************************************************************************)
EntryMatches(e, r) ==
    /\ Trim(e.name) = Trim(r.name)
    /\ Trim(e.main_stat_name) = Trim(r.main_stat_name)
    /\ Trim(e.main_stat_value) = Trim(r.main_stat_value)
    /\ Trim(e.sub_stat[1]) = Trim(r.sub_stat[1])
    /\ Trim(e.sub_stat[2]) = Trim(r.sub_stat[2])
    /\ Trim(e.sub_stat[3]) = Trim(r.sub_stat[3])
    /\ Trim(e.sub_stat[4]) = Trim(r.sub_stat[4])

LockListContains(list, r) == \E i \in 1..Len(list) : EntryMatches(list[i], r)

(***************************************************************************)
(* The driver's item count (artifact_scanner.rs).                          *)
(***************************************************************************)
\* item_name: its three characters, written in pinyin
ItemName == <<"sheng", "yi", "wu">>

StartsWith(s, prefix) ==
    Len(s) >= Len(prefix) /\ SubSeq(s, 1, Len(prefix)) = prefix

\* variant: the larger of the two taken
ClampCount_Max(c) == IF c >= MAX_COUNT THEN c ELSE MAX_COUNT

\* max_count.min(c)
ClampCount(c) == Min(MAX_COUNT, c)

\* get_item_count for the configured number and the text read from the
\* item count area of the screen
get_item_count(number, s) ==
    IF number > 0 THEN ClampCount(number)
    ELSE IF StartsWith(s, ItemName)
    THEN LET count_str == Trim(SubSeq(s, 4, Len(s) - 5))
             parsed == ParseUsize(count_str)
         IN  IF parsed.ok THEN ClampCount(AsI32(parsed.val)) ELSE MAX_COUNT
    ELSE MAX_COUNT

(***************************************************************************)
(* The driver's page arithmetic (artifact_scanner.rs).                     *)
(***************************************************************************)
\* variant: the first item of every row taken for the first of a page
is_page_first_artifact_Row(cur_index) == cur_index % Col = 0

is_page_first_artifact(cur_index) == cur_index % (Col * Row) = 0

\* integer division of i32: the quotient is truncated towards zero
DivTrunc(a, b) == IF a >= 0 THEN a \div b ELSE -((-a) \div b)

\* variant: the remaining rows rounded down
RemainRow_Floor(remain, col) == DivTrunc(remain, col)

\* remain_row: the rows the remaining items fill, (remain + col - 1) / col
RemainRow(remain, col) == DivTrunc(remain + col - 1, col)

\* the body of get_start_row for a window with row rows and col columns
StartRow(row, col, max_count, cur_index) ==
    LET page_size == col * row
    IN  IF max_count - cur_index >= page_size
        THEN 0
        ELSE LET remain == max_count - cur_index
                 remain_row == RemainRow(remain, col)
                 scroll_row == Min(remain_row, row)
             IN  row - scroll_row

get_start_row(max_count, cur_index) == StartRow(Row, Col, max_count, cur_index)

\* the list image the driver captures for a page-first item in a window of
\* the given height: its height and the cells in which the lock icon
\* colour shows
CaptureListImage(height, count, cur_index, locked) ==
    [height |-> height - MarginY - ItemPitch * get_start_row(count, cur_index),
     locked |-> locked]

(***************************************************************************)
(* The worker's recognition of one item (artifact_scanner_worker.rs).      *)
(***************************************************************************)
\* rows of the list image the detection loop visits before it breaks
RowsVisited(list_image) ==
    {r \in 0..(Row - 1) : \A q \in 0..r : ~(ItemPitch * q > list_image.height)}

RECURSIVE PageLocksFrom(_, _)
PageLocksFrom(list_image, k) ==
    IF k >= Cardinality(RowsVisited(list_image)) * Col
    THEN <<>>
    ELSE <<(<<k \div Col, k % Col>> \in list_image.locked)>>
         \o PageLocksFrom(list_image, k + 1)

\* get_page_locks_from_list_image: one lock state per cell, row-major
get_page_locks(list_image) == PageLocksFrom(list_image, 0)

\* ArtifactStat::from_zh_cn_raw(..).is_some(): "<name>+<value>"
StatParses(s) == FindPlus(s) > 1 /\ FindPlus(s) < Len(s)

\* the rectangles scan_item_image recognises, in the order of its calls
RectOrder ==
    <<"title", "main_stat_name", "main_stat_value", "sub_stat_1", "sub_stat_2",
      "sub_stat_3", "sub_stat_4", "level", "equip">>

\* variant: the equip rectangle translated with the others
ShiftedRects_WithEquip ==
    {"level", "sub_stat_1", "sub_stat_2", "sub_stat_3", "sub_stat_4", "equip"}

\* the rectangles translated by the offset
ShiftedRects == {"level", "sub_stat_1", "sub_stat_2", "sub_stat_3", "sub_stat_4"}

\* has_blessed_frost_mark: a detect rectangle is configured and at least
\* RATIO_THRESHOLD = 0.9 of its pixels are within the distance bound of the
\* reference purple
has_blessed_frost_mark(panel) ==
    /\ FrostDetectHeight > 0
    /\ 10 * panel.frost_match >= 9 * FrostDetectPixels

\* offset_y: the configured offset when it is non-zero and the marker is
\* detected
OffsetY(panel, configured) ==
    IF configured # 0 /\ has_blessed_frost_mark(panel) THEN configured ELSE 0

\* what is read in a rectangle as calibrated
Calibrated(panel, rect) ==
    CASE rect = "title" -> panel.title
      [] rect = "main_stat_name" -> panel.main_stat_name
      [] rect = "main_stat_value" -> panel.main_stat_value
      [] rect = "sub_stat_1" -> panel.sub_stat[1]
      [] rect = "sub_stat_2" -> panel.sub_stat[2]
      [] rect = "sub_stat_3" -> panel.sub_stat[3]
      [] rect = "sub_stat_4" -> panel.sub_stat[4]
      [] rect = "level" -> panel.level
      [] rect = "equip" -> panel.equip

\* what is read in a rectangle of ShiftedRects translated by the offset
Translated(panel, rect) ==
    CASE rect = "sub_stat_1" -> panel.shifted.sub_stat[1]
      [] rect = "sub_stat_2" -> panel.shifted.sub_stat[2]
      [] rect = "sub_stat_3" -> panel.shifted.sub_stat[3]
      [] rect = "sub_stat_4" -> panel.shifted.sub_stat[4]
      [] rect = "level" -> panel.shifted.level
      [] OTHER -> Fail

\* model_inference: the crop of the rectangle (an error when it leaves the
\* image) and its recognition with the ordinary preprocessing
model_inference(panel, rect, dy) ==
    IF dy = 0 THEN Calibrated(panel, rect) ELSE Translated(panel, rect)

\* model_inference_pending_line: the same with the pending-line variant
model_inference_pending_line(panel, rect, dy) ==
    IF dy = 0 THEN panel.sub_stat_4_pending ELSE panel.shifted.sub_stat_4_pending

\* variant: the retry made only for a text that parses
NeedsRetry_Inverted(rect, text) == rect = "sub_stat_4" /\ StatParses(text)

\* the pending-line retry: for the fourth sub-stat when the ordinary text
\* is not a stat
NeedsRetry(rect, text) == rect = "sub_stat_4" /\ ~StatParses(text)

\* the offset of the k-th rectangle
RectDy(offset_y, k) == IF RectOrder[k] \in ShiftedRects THEN offset_y ELSE 0

\* the ordinary recognition of the k-th rectangle
Ordinary(panel, offset_y, k) ==
    model_inference(panel, RectOrder[k], RectDy(offset_y, k))

\* the pending-line call follows an ordinary call that succeeded on a text
\* in need of the retry
Retried(k, normal) == normal.ok /\ NeedsRetry(RectOrder[k], normal.val)

\* the text scan_item_image takes for the k-th rectangle, or the error of
\* the call that failed
ReadRect(panel, offset_y, k) ==
    LET normal == Ordinary(panel, offset_y, k)
    IN  IF Retried(k, normal)
        THEN model_inference_pending_line(panel, RectOrder[k], RectDy(offset_y, k))
        ELSE normal

\* the calls made for the k-th rectangle
RectCalls(panel, offset_y, k) ==
    <<[variant |-> "normal", rect |-> RectOrder[k], dy |-> RectDy(offset_y, k)]>>
        \o IF Retried(k, Ordinary(panel, offset_y, k))
           THEN <<[variant |-> "pending", rect |-> RectOrder[k],
                   dy |-> RectDy(offset_y, k)]>>
           ELSE <<>>

\* the calls made for the first k rectangles
RECURSIVE CallsOf(_, _, _)
CallsOf(panel, offset_y, k) ==
    IF k = 0 THEN <<>>
    ELSE CallsOf(panel, offset_y, k - 1) \o RectCalls(panel, offset_y, k)

\* F applied to the value of text, the text being evaluated once
OnValue(F(_), text) == CHOOSE r \in {F(t) : t \in {text}} : TRUE

\* variant: a level that does not parse is taken as 0
LevelOf_Default(parsed) == [ok |-> TRUE, val |-> IF parsed.ok THEN parsed.val ELSE 0]

\* parse_level(..)?: the error of the parse is the error of the item
LevelOf(parsed) == parsed

\* scan_item_image with the configured offset: the record built from the
\* texts read, or the error of the first call or of the level parse that
\* fails
ScanResult(panel, star, lock, configured) ==
    LET offset_y == OffsetY(panel, configured)
        str_title == ReadRect(panel, offset_y, 1)
        str_main_stat_name == ReadRect(panel, offset_y, 2)
        str_main_stat_value == ReadRect(panel, offset_y, 3)
        str_sub_stat0 == ReadRect(panel, offset_y, 4)
        str_sub_stat1 == ReadRect(panel, offset_y, 5)
        str_sub_stat2 == ReadRect(panel, offset_y, 6)
        str_sub_stat3 == ReadRect(panel, offset_y, 7)
        str_level == ReadRect(panel, offset_y, 8)
        str_equip == ReadRect(panel, offset_y, 9)
        level == LevelOf(OnValue(parse_level, str_level.val))
    IN  IF \/ ~str_title.ok \/ ~str_main_stat_name.ok \/ ~str_main_stat_value.ok
           \/ ~str_sub_stat0.ok \/ ~str_sub_stat1.ok \/ ~str_sub_stat2.ok
           \/ ~str_sub_stat3.ok \/ ~str_level.ok \/ ~str_equip.ok
           \/ ~level.ok
        THEN [ok |-> FALSE]
        ELSE [ok |-> TRUE,
              val |-> [name |-> str_title.val,
                       main_stat_name |-> str_main_stat_name.val,
                       main_stat_value |-> str_main_stat_value.val,
                       sub_stat |-> <<str_sub_stat0.val, str_sub_stat1.val,
                                      str_sub_stat2.val, str_sub_stat3.val>>,
                       level |-> level.val,
                       equip |-> str_equip.val,
                       star |-> star,
                       lock |-> lock]]

\* the calls scan_item_image makes, in program order: each `?` returns at
\* the first error, so the rectangles are read up to the first that fails
ScanCallsOf(panel, configured) ==
    LET offset_y == OffsetY(panel, configured)
        failed == {k \in 1..Len(RectOrder) : ~ReadRect(panel, offset_y, k).ok}
    IN  CallsOf(panel, offset_y,
                IF failed = {} THEN Len(RectOrder)
                ELSE CHOOSE k \in failed : \A j \in failed : k <= j)

\* scan_item_image with its calls
ScanItem(item, lock, configured) ==
    [calls |-> ScanCallsOf(item.panel_image, configured)]
        @@ ScanResult(item.panel_image, item.star, lock, configured)

scan_item_image(item, lock) ==
    ScanResult(item.panel_image, item.star, lock, BlessedFrostOffsetY)

(***************************************************************************)
(* State.                                                                  *)
(***************************************************************************)
VARIABLES
    screens,         \* the captures the screen can show in this session
    lock_patterns,   \* the lock icon layouts the list view can show
    window_height,   \* window_info.origin_rect.height
    count,           \* get_item_count(): the number of cells to visit
    lock_list,       \* the loaded lock-target list (Option)
    ignore_dup,      \* config.ignore_dup
    cursor,          \* the traversal generator's cursor
    traversal,       \* "Running", or the generator's terminal result
    d_pc,            \* driver: "resume", "recv", "sentinel", "join", "done"
    d_index,         \* send(): artifact_index
    chan,            \* item channel tx -> rx: messages in flight
    rx_alive,        \* the worker still holds the receiver rx
    result_chan,     \* feedback channel result_tx -> result_rx
    result_tx_alive, \* the worker still holds the sender result_tx
    w_pc,            \* worker: "recv", "rules", "exit", "done"
    w_index,         \* run(): artifact_index
    w_result,        \* run(): the record recognised for the current item
    locks,           \* run(): the accumulated lock vector
    hash,            \* run(): the accepted set
    results,         \* run(): the output list
    consecutive_dup_count,
    panicked,        \* the worker thread unwound from a panic
    ret,             \* what scan() returned (Option of a Result)
    lock_clicks,     \* try_lock_artifact calls: the driver index of each
    sampled,         \* history: the star sampled at each checkpoint
    pushed,          \* history: the items the driver sent, in order
    consumed,        \* history: the items the worker took, in order
    published,       \* history: the feedback messages sent, in order
    received,        \* history: what the driver's recv returned, per push
    results_src,     \* history: the item index each output record came from
    sentinels,       \* history: the number of sentinel sends attempted
    fn_arg,          \* the arguments of the function applied on its own
    fn_out           \* its result

vars == <<screens, lock_patterns, window_height, fn_arg, fn_out, count, lock_list, ignore_dup, cursor, traversal, d_pc, d_index, chan, rx_alive,
          result_chan, result_tx_alive, w_pc, w_index, w_result, locks, hash,
          results, consecutive_dup_count, panicked, ret, lock_clicks, sampled,
          pushed, consumed, published, received, results_src, sentinels>>

driver_vars == <<cursor, traversal, d_pc, d_index, ret, lock_clicks, sampled, pushed,
                 received, sentinels>>

worker_vars == <<rx_alive, result_tx_alive, w_pc, w_index, w_result, locks,
                 hash, results, consecutive_dup_count, panicked, consumed,
                 published, results_src>>

config_vars == <<screens, lock_patterns, window_height, count, lock_list, ignore_dup,
                 fn_arg, fn_out>>

\* scan(): the feedback channel exists iff a lock list was loaded
Feedback == lock_list.some

\* scan() up to the call of send(): the channels are created and the worker
\* is spawned with empty results, set, lock vector and counters
SessionStart ==
    /\ cursor = 0
    /\ traversal = "Running"
    /\ d_pc = "resume"
    /\ d_index = 0
    /\ chan = <<>>
    /\ rx_alive = TRUE
    /\ result_chan = <<>>
    /\ result_tx_alive = lock_list.some
    /\ w_pc = "recv"
    /\ w_index = 0
    /\ w_result = None
    /\ locks = <<>>
    /\ hash = {}
    /\ results = <<>>
    /\ consecutive_dup_count = 0
    /\ panicked = FALSE
    /\ ret = None
    /\ lock_clicks = <<>>
    /\ sampled = <<>>
    /\ pushed = <<>>
    /\ consumed = <<>>
    /\ published = <<>>
    /\ received = <<>>
    /\ results_src = <<>>
    /\ sentinels = 0

\* no function is applied on its own during a session
NoCall == None

\* the sessions of a user whose window shows the whole grid
Init ==
    /\ screens \in Inventories
    /\ lock_patterns = LockPatterns
    /\ window_height = WindowHeight
    /\ count \in 0..MaxCount
    /\ lock_list \in LockLists
    /\ ignore_dup \in BOOLEAN
    /\ fn_arg = NoCall
    /\ fn_out = NoCall
    /\ SessionStart

(***************************************************************************)
(* The driver: GenshinArtifactScanner::send and the end of scan().         *)
(***************************************************************************)
\* the traversal generator (GenshinRepositoryScanController::get_generator):
\* it yields one checkpoint per cell while the cursor is below the count
GeneratorYields(cur, n) == cur < n

\* the results it can complete with: Finished once the cursor reached the
\* count, Interrupted or an error before that
GeneratorComplete(cur, n) ==
    IF cur >= n THEN {"Finished"} ELSE {"Interrupted", "Error"}

\* variant: the push succeeds whatever the state of the receiver
SendOk_Always == TRUE

\* Sender::send: fails iff the receiver has been dropped
SendOk == rx_alive

\* variant: the floor compared with <= instead of <
BelowFloor_Inclusive(star) == star <= MinStar

\* the rarity floor: (star as i32) < min_star
BelowFloor(star) == star < MinStar

\* variant: the driver goes on without waiting for the result
AfterPush_NoWait(feedback) == "resume"

\* after a successful push the driver waits for the correlated result when
\* both the feedback receiver and the lock list are there
AfterPush(feedback) == IF feedback THEN "recv" ELSE "resume"

\* variant: the lock action taken whatever the lock flag says
ShouldLock_IgnoreFlag(list, res) == LockListContains(list, res)

\* the lock action is taken for a record the list contains and that the
\* list view does not show as locked
ShouldLock(list, res) == LockListContains(list, res) /\ ~res.lock

\* variant: scan() goes on to the join without sending the sentinel
AfterBreak_NoSentinel == "join"

\* every break of the loop ends send(); scan() then sends the sentinel
AfterBreak == "sentinel"

\* the loop body for CoroutineState::Yielded: capture, sample, count the
\* item, apply the rarity floor, push, and wait for feedback if configured
DriverYielded ==
    /\ d_pc = "resume"
    /\ GeneratorYields(cursor, count)
    /\ \E screen \in screens, locked \in lock_patterns :
         LET list_image ==
                 IF is_page_first_artifact(d_index)
                 THEN Some(CaptureListImage(window_height, count, d_index, locked))
                 ELSE None
             item == [panel_image |-> screen.panel, star |-> screen.star,
                      list_image |-> list_image]
         IN  /\ ~is_page_first_artifact(d_index) => locked = {}
             /\ cursor' = cursor + 1
             /\ d_index' = d_index + 1
             /\ sampled' = Append(sampled, screen.star)
             /\ IF BelowFloor(screen.star)
                THEN /\ d_pc' = AfterBreak
                     /\ UNCHANGED <<chan, pushed>>
                ELSE IF ~SendOk
                THEN /\ d_pc' = AfterBreak
                     /\ UNCHANGED <<chan, pushed>>
                ELSE /\ chan' = Append(chan, Some(item))
                     /\ pushed' = Append(pushed, item)
                     /\ d_pc' = AfterPush(Feedback)
    /\ UNCHANGED <<traversal, ret, lock_clicks, received, sentinels, result_chan>>
    /\ UNCHANGED worker_vars
    /\ UNCHANGED config_vars

\* CoroutineState::Complete: the traversal is Finished (cursor exhausted),
\* Interrupted or failed; in each case the loop breaks
DriverComplete ==
    /\ d_pc = "resume"
    /\ traversal' \in GeneratorComplete(cursor, count)
    /\ d_pc' = AfterBreak
    /\ UNCHANGED <<cursor, d_index, ret, lock_clicks, sampled, pushed, received,
                   sentinels, chan, result_chan>>
    /\ UNCHANGED worker_vars
    /\ UNCHANGED config_vars

\* rx.recv() after a push: blocks until a message is there or the worker has
\* dropped result_tx; then the lock action when the record matches the list
\* and is not shown as locked
DriverRecv ==
    /\ d_pc = "recv"
    /\ result_chan # <<>> \/ ~result_tx_alive
    /\ LET got == IF result_chan # <<>>
                  THEN [ok |-> TRUE, val |-> Head(result_chan)]
                  ELSE [ok |-> FALSE]
       IN  /\ result_chan' = IF result_chan # <<>> THEN Tail(result_chan) ELSE result_chan
           /\ received' = Append(received, got)
           /\ IF got.ok /\ got.val.some
              THEN lock_clicks' =
                       IF ShouldLock(lock_list.val, got.val.val)
                       THEN Append(lock_clicks, d_index)
                       ELSE lock_clicks
              ELSE UNCHANGED lock_clicks
    /\ d_pc' = "resume"
    /\ UNCHANGED <<cursor, traversal, d_index, ret, sampled, pushed, sentinels, chan>>
    /\ UNCHANGED worker_vars
    /\ UNCHANGED config_vars

\* scan(): tx.send(None) after send() returned, whatever its outcome
DriverSentinel ==
    /\ d_pc = "sentinel"
    /\ chan' = IF SendOk THEN Append(chan, None) ELSE chan
    /\ sentinels' = sentinels + 1
    /\ d_pc' = "join"
    /\ UNCHANGED <<cursor, traversal, d_index, ret, lock_clicks, sampled, pushed, received,
                   result_chan>>
    /\ UNCHANGED worker_vars
    /\ UNCHANGED config_vars

RECURSIVE FilterLevel(_)
FilterLevel(v) ==
    IF v = <<>> THEN <<>>
    ELSE IF Head(v).level >= MinLevel
    THEN <<Head(v)>> \o FilterLevel(Tail(v))
    ELSE FilterLevel(Tail(v))

\* variant: the records are taken without waiting for the worker
JoinReady_NoWait(pc) == TRUE

\* join() returns once the worker thread has ended
JoinReady(pc) == pc = "done"

\* variant: a panic of the worker is turned into an empty list
JoinValue_OrDefault(panic, v) ==
    [ok |-> TRUE, val |-> IF panic THEN <<>> ELSE FilterLevel(v)]

\* the match on join(): Ok with the filtered records, Err after a panic
JoinValue(panic, v) ==
    IF panic THEN [ok |-> FALSE] ELSE [ok |-> TRUE, val |-> FilterLevel(v)]

\* scan(): join_handle.join() and the final level filter
DriverJoin ==
    /\ d_pc = "join"
    /\ JoinReady(w_pc)
    /\ ret' = Some(JoinValue(panicked, results))
    /\ d_pc' = "done"
    /\ UNCHANGED <<cursor, traversal, d_index, lock_clicks, sampled, pushed, received,
                   sentinels, chan, result_chan>>
    /\ UNCHANGED worker_vars
    /\ UNCHANGED config_vars

(***************************************************************************)
(* The worker: ArtifactScannerWorker::run.                                 *)
(***************************************************************************)
\* send_result: publishes only when a feedback sender was given
SendResult(r) == IF result_tx_alive THEN Append(result_chan, r) ELSE result_chan

\* variant: the Err arm continues without publishing the failure marker
SendFailure_Dropped == result_chan

\* the Err arm of the recognition: the failure marker is published
SendFailure == SendResult(None)

\* the Ok path: the recognised record is published
SendRecord(result) == SendResult(Some(result))

\* the message the for loop takes from rx, and what stays in the channel
RecvItem(q) == Head(q)

\* variant: the message taken stays in the channel
RecvRest_Keep(q) == q

RecvRest(q) == Tail(q)

\* variant: the record inserted at the front of the output
PushResult_Front(v, result) == <<result>> \o v

\* results.push(result)
PushResult(v, result) == Append(v, result)

\* variant: the counter is not reset by a new record
NextDupCount_NoReset(dup, c) == IF dup THEN c + 1 ELSE c

\* consecutive_dup_count after the membership test
NextDupCount(dup, c) == IF dup THEN c + 1 ELSE 0

\* variant: a page's lock vector replaces the accumulated one
ExtendLocks_Replace(v, page) == page

\* locks = vec![locks, get_page_locks_from_list_image(..)].concat()
ExtendLocks(v, page) == v \o page

\* variant: a failed recognition ends the loop
AfterRecognition_Stop(ok) == IF ok THEN "rules" ELSE "exit"

\* the match on the recognition: continue with the next item on Err, the
\* rules on Ok
AfterRecognition(ok) == IF ok THEN "rules" ELSE "recv"

\* the loop ends: the iterator over rx is dropped before the thread returns
WorkerBreak ==
    /\ rx_alive' = FALSE
    /\ w_pc' = "exit"

\* the for loop takes the sentinel and breaks
WorkerTakeSentinel ==
    /\ w_pc = "recv"
    /\ chan # <<>>
    /\ ~RecvItem(chan).some
    /\ chan' = RecvRest(chan)
    /\ WorkerBreak
    /\ UNCHANGED <<result_chan, result_tx_alive, w_index, w_result, locks, hash,
                   results, consecutive_dup_count, panicked, consumed, published,
                   results_src>>
    /\ UNCHANGED driver_vars
    /\ UNCHANGED config_vars

\* the for loop takes an item: extend the lock vector, count the item, look
\* up its lock state (a panic when out of range), recognise and publish
WorkerTakeItem ==
    /\ w_pc = "recv"
    /\ chan # <<>>
    /\ RecvItem(chan).some
    /\ LET item == RecvItem(chan).val
           new_locks == IF item.list_image.some
                        THEN ExtendLocks(locks, get_page_locks(item.list_image.val))
                        ELSE locks
           index == w_index + 1
       IN  /\ chan' = RecvRest(chan)
           /\ locks' = new_locks
           /\ w_index' = index
           /\ consumed' = Append(consumed, item)
           /\ IF index > Len(new_locks)
              THEN /\ panicked' = TRUE
                   /\ WorkerBreak
                   /\ UNCHANGED <<result_chan, w_result, published>>
              ELSE LET result == scan_item_image(item, new_locks[index])
                       msg == IF result.ok THEN Some(result.val) ELSE None
                   IN  /\ result_chan' = IF result.ok
                                         THEN SendRecord(result.val)
                                         ELSE SendFailure
                       /\ published' =
                              IF result_chan' # result_chan
                              THEN Append(published, result_chan'[Len(result_chan')])
                              ELSE published
                       /\ w_result' = msg
                       /\ w_pc' = AfterRecognition(result.ok)
                       /\ UNCHANGED <<rx_alive, panicked>>
    /\ UNCHANGED <<result_tx_alive, hash, results, consecutive_dup_count,
                   results_src>>
    /\ UNCHANGED driver_vars
    /\ UNCHANGED config_vars

\* variant: the level comparison inverted
StopOnLevel_Inverted(result) == result.level > MinLevel

\* the level floor reached: the loop breaks
StopOnLevel(result) == result.level < MinLevel

\* variant: the threshold compared with > instead of >=
StopOnDup_Strict(dup) == dup > Col /\ ~ignore_dup

\* the duplicate threshold reached without the override: the loop breaks
StopOnDup(dup) == dup >= Col /\ ~ignore_dup

\* after publishing: the level floor, the dedup bookkeeping and the
\* consecutive-duplicate stop
WorkerRules ==
    /\ w_pc = "rules"
    /\ LET result == w_result.val
       IN  IF StopOnLevel(result)
           THEN /\ WorkerBreak
                /\ UNCHANGED <<hash, results, consecutive_dup_count, results_src>>
           ELSE LET dup == HashContains(hash, result)
                    n == NextDupCount(dup, consecutive_dup_count)
                IN  /\ consecutive_dup_count' = n
                    /\ hash' = IF dup THEN hash ELSE HashInsert(hash, result)
                    /\ results' = IF dup THEN results ELSE PushResult(results, result)
                    /\ results_src' = IF dup THEN results_src
                                      ELSE Append(results_src, w_index)
                    /\ IF StopOnDup(n)
                       THEN WorkerBreak
                       ELSE /\ w_pc' = "recv"
                            /\ UNCHANGED rx_alive
    /\ UNCHANGED <<chan, result_chan, result_tx_alive, w_index, w_result, locks,
                   panicked, consumed, published>>
    /\ UNCHANGED driver_vars
    /\ UNCHANGED config_vars

\* the thread's closure returns (or finishes unwinding): result_tx is
\* dropped and the join handle becomes ready
WorkerExit ==
    /\ w_pc = "exit"
    /\ result_tx_alive' = FALSE
    /\ w_pc' = "done"
    /\ UNCHANGED <<chan, result_chan, rx_alive, w_index, w_result, locks, hash,
                   results, consecutive_dup_count, panicked, consumed, published,
                   results_src>>
    /\ UNCHANGED driver_vars
    /\ UNCHANGED config_vars

Next ==
    \/ DriverYielded
    \/ DriverComplete
    \/ DriverRecv
    \/ DriverSentinel
    \/ DriverJoin
    \/ WorkerTakeSentinel
    \/ WorkerTakeItem
    \/ WorkerRules
    \/ WorkerExit

Spec == Init /\ [][Next]_vars

\* sessions that go beyond the first page, with the duplicate stop
\* overridden; among them full-page sessions in a window too low for the
\* grid
PageInit ==
    /\ screens = PageInventory
    /\ lock_patterns = PageLockPatterns
    /\ window_height \in {WindowHeight, ShortWindowHeight}
    /\ count \in 0..MaxPageCount
    /\ window_height = ShortWindowHeight => count = Row * Col
    /\ lock_list \in LockLists
    /\ ignore_dup = TRUE
    /\ fn_arg = NoCall
    /\ fn_out = NoCall
    /\ SessionStart

PageSpec == PageInit /\ [][Next]_vars

\* the configured numbers and the on-screen texts of the sessions whose
\* count comes from get_item_count: texts that read as a count, texts whose
\* count cannot be parsed, and a text without the item name
ConfiguredNumbers == {-1, 0, 2, 3, 2400, 2401, 5000}

ReadableTexts ==
    {ItemName \o <<" ", "0", "/", "1", "8", "0", "0">>,
     ItemName \o <<" ", "3", "/", "1", "8", "0", "0">>,
     ItemName \o <<" ", "2", "3", "9", "9", "/", "2", "4", "0", "0">>,
     ItemName \o <<" ", "2", "4", "0", "1", "/", "9", "9", "9", "9">>}

UnreadableTexts ==
    {ItemName \o <<" ", "1", "o", "/", "1", "8", "0", "0">>,
     ItemName \o <<" ", "/", "1", "8", "0", "0">>,
     <<"3", "/", "1", "8", "0", "0">>}

\* the screen is read only without a positive configured number
CountArgs ==
    {a \in [number : ConfiguredNumbers,
            text : ReadableTexts \cup UnreadableTexts \cup {<<>>}] :
        a.number > 0 <=> a.text = <<>>}

\* scan(): the count is what get_item_count returns
CountInit ==
    /\ screens = {ItemA, ItemB, ItemC, ItemE}
    /\ lock_patterns = LockPatterns
    /\ window_height = WindowHeight
    /\ fn_arg \in CountArgs
    /\ fn_out = NoCall
    /\ count = get_item_count(fn_arg.number, fn_arg.text)
    /\ lock_list \in LockLists
    /\ ignore_dup = FALSE
    /\ SessionStart

\* the session is followed for its first MaxFollowed checkpoints
CountNext == Next /\ cursor' <= MaxFollowed

CountSpec == CountInit /\ [][CountNext]_vars

(***************************************************************************)
(* Functions applied on their own: the arguments are drawn in the initial  *)
(* state, one step applies the function, and no session runs.              *)
(***************************************************************************)
NoSession ==
    /\ screens = {}
    /\ lock_patterns = {}
    /\ window_height = WindowHeight
    /\ count = 0
    /\ lock_list = None
    /\ ignore_dup = FALSE
    /\ SessionStart

session_vars == <<screens, lock_patterns, window_height, count, lock_list, ignore_dup,
                  chan, result_chan, driver_vars, worker_vars>>

\* get_start_row is called for a page-first cursor below the total count
StartRowArgs ==
    {a \in [rows : 1..MaxRows, cols : 1..MaxCols, max_count : 1..MaxTotal,
            cur_index : 0..(MaxTotal - 1)] : a.cur_index < a.max_count}

StartRowInit ==
    /\ NoSession
    /\ fn_arg \in StartRowArgs
    /\ fn_out = NoCall

ApplyStartRow ==
    /\ fn_out = NoCall
    /\ fn_out' = Some(StartRow(fn_arg.rows, fn_arg.cols, fn_arg.max_count,
                               fn_arg.cur_index))
    /\ UNCHANGED <<fn_arg, session_vars>>

StartRowSpec == StartRowInit /\ [][ApplyStartRow]_vars

\* LockList::contains applied on its own: lock lists whose entries carry
\* surrounding whitespace, an interior blank or a blank name, and records
\* whose fields are the entry's, the entry's with other padding, or different
EntryPadded ==
    [name |-> <<"\n", "a", " ">>, main_stat_name |-> <<" ", "h", "p">>,
     main_stat_value |-> <<"7", " ">>,
     sub_stat |-> <<<<"x", "+", "1", " ">>, <<" ", "y", "+", "2">>,
                    <<"z", "+", "3">>, <<"w", "+", "4", "\n">>>>]

EntryInterior == [EntryPadded EXCEPT !.name = <<"a", " ", "b">>]

EntryBlank == [EntryPadded EXCEPT !.name = <<" ">>]

CheckLists ==
    {<<>>, <<EntryPadded>>, <<EntryInterior, EntryPadded>>, <<EntryBlank>>,
     <<EntryInterior>>}

CheckNames ==
    {<<"a">>, <<" ", "a">>, <<"a", "\t">>, <<"A">>, <<"a", " ", "b">>, <<"a", "b">>,
     <<>>, <<" ">>}

CheckSubStats ==
    <<{<<"x", "+", "1">>, <<" ", "x", "+", "1">>, <<"y", "+", "2">>},
      {<<"y", "+", "2">>, <<"y", "+", "2", " ">>, <<"z", "+", "3">>},
      {<<"z", "+", "3">>, <<"\t", "z", "+", "3">>, <<"w", "+", "4">>},
      {<<"w", "+", "4">>, <<"w", "+", "4", " ">>, <<"x", "+", "1">>}>>

\* the fields of a record that are not matched on
CheckRest ==
    {[level |-> 0, equip |-> <<>>, star |-> 4, lock |-> FALSE],
     [level |-> 20, equip |-> <<"k">>, star |-> 5, lock |-> TRUE]}

CheckRecords ==
    {[name |-> n, main_stat_name |-> mn, main_stat_value |-> mv,
      sub_stat |-> <<s1, s2, s3, s4>>,
      level |-> x.level, equip |-> x.equip, star |-> x.star, lock |-> x.lock] :
        n \in CheckNames,
        mn \in {<<"h", "p">>, <<"h", "p", " ">>, <<"H", "P">>},
        mv \in {<<"7">>, <<" ", "7">>, <<"7", "0">>},
        s1 \in CheckSubStats[1], s2 \in CheckSubStats[2],
        s3 \in CheckSubStats[3], s4 \in CheckSubStats[4],
        x \in CheckRest}

ContainsInit ==
    /\ NoSession
    /\ fn_arg \in [list : CheckLists, r : CheckRecords]
    /\ fn_out = NoCall

ApplyContains ==
    /\ fn_out = NoCall
    /\ fn_out' = Some(LockListContains(fn_arg.list, fn_arg.r))
    /\ UNCHANGED <<fn_arg, session_vars>>

ContainsSpec == ContainsInit /\ [][ApplyContains]_vars

\* both threads are scheduled: a step that stays enabled is eventually taken
Driver ==
    DriverYielded \/ DriverComplete \/ DriverRecv \/ DriverSentinel \/ DriverJoin

Worker == WorkerTakeSentinel \/ WorkerTakeItem \/ WorkerRules \/ WorkerExit

\* the sessions the liveness check runs on
LiveInit == Init /\ count <= MaxLiveCount

\* both threads are scheduled by the operating system: as long as one of
\* them can take a step, a step is eventually taken (no step of one thread
\* ever disables a step of the other)
FairSpec == LiveInit /\ [][Next]_vars /\ WF_vars(Next)

(***************************************************************************)
(* Properties.                                                             *)
(***************************************************************************)
\* the content the worker recognises from an item (Fail when it cannot)
Recognised(item) == scan_item_image(item, FALSE)

Accepted(item) == Recognised(item).ok

Range(q) == {q[i] : i \in 1..Len(q)}

\* C1: the worker takes the items in the order the driver pushed them (what
\* it has consumed is always a prefix of what was pushed), every output
\* record is the recognition of a pushed item, the items the output records
\* came from are in increasing push order, and scan() returns the output
\* list in that order.
C1_OrderPreserved ==
    /\ Len(consumed) <= Len(pushed)
    /\ consumed = SubSeq(pushed, 1, Len(consumed))
    /\ Len(results_src) = Len(results)
    /\ \A i \in 1..Len(results) :
          /\ results_src[i] \in 1..Len(consumed)
          /\ scan_item_image(pushed[results_src[i]], results[i].lock)
                = [ok |-> TRUE, val |-> results[i]]
    /\ \A i, j \in 1..Len(results) : i < j => results_src[i] < results_src[j]
    /\ (ret.some /\ ret.val.ok) => ret.val.val = results

\* C1 witness: scan() returned two records that came from the first and the
\* third pushed item, the second one having been dropped
C1_Witness ==
    /\ d_pc = "done"
    /\ ret.val.ok
    /\ Len(ret.val.val) = 2
    /\ results_src = <<1, 3>>

\* the pushed items are recognised, at or above the level floor, and
\* pairwise different in content
DistinctAccepted ==
    /\ \A i \in 1..Len(pushed) :
          Accepted(pushed[i]) /\ Recognised(pushed[i]).val.level >= MinLevel
    /\ \A i, j \in 1..Len(pushed) :
          i # j => ~ResultEq(Recognised(pushed[i]).val, Recognised(pushed[j]).val)

\* C2: no item whose sampled tier is below the floor is pushed or reaches
\* the worker; a checkpoint sampled below the floor is the last checkpoint
\* of the session, nothing is pushed for it and the driver has left the
\* loop; a checkpoint sampled at or above the floor is pushed unless the
\* worker has already dropped the channel; and for floor 4 and sampled
\* tiers 5,5,4,3 with distinct accepted contents exactly 3 items are pushed
\* and scan() returns exactly 3 records.
C2_RarityFloor ==
    /\ \A i \in 1..Len(pushed) : pushed[i].star >= MinStar
    /\ \A i \in 1..Len(chan) : chan[i].some => chan[i].val.star >= MinStar
    /\ \A i \in 1..Len(consumed) : consumed[i].star >= MinStar
    /\ \A i \in 1..Len(sampled) :
          sampled[i] < MinStar =>
             /\ i = Len(sampled)
             /\ Len(pushed) = i - 1
             /\ d_pc \in {"sentinel", "join", "done"}
    /\ \A i \in 1..Len(sampled) :
          sampled[i] >= MinStar =>
             \/ i <= Len(pushed) /\ pushed[i].star = sampled[i]
             \/ /\ i = Len(sampled)
                /\ ~rx_alive
                /\ d_pc \in {"sentinel", "join", "done"}
    /\ (d_pc = "done" /\ MinStar = 4 /\ sampled = <<5, 5, 4, 3>> /\ DistinctAccepted)
          => (Len(pushed) = 3 /\ ret.val.ok /\ Len(ret.val.val) = 3)

\* C2 witness: the session with floor 4 and sampled tiers 5,5,4,3 has ended
\* with three records
C2_Witness ==
    /\ d_pc = "done"
    /\ MinStar = 4
    /\ sampled = <<5, 5, 4, 3>>
    /\ Len(pushed) = 3
    /\ ret.val.ok
    /\ Len(ret.val.val) = 3

\* the worker leaves its loop in this step
WorkerStops == rx_alive /\ ~rx_alive'

\* C3: without the override, once the consecutive-duplicate counter has
\* reached the column count the worker has left its loop and takes nothing
\* more from the channel; with the override, the worker leaves its loop
\* only on the sentinel, on the level floor or by a panic, never because of
\* duplicates.
C3_DuplicateStop ==
    /\ [](~ignore_dup /\ consecutive_dup_count >= Col
            => ~rx_alive /\ w_pc \in {"exit", "done"})
    /\ [][~ignore_dup /\ consecutive_dup_count >= Col
            => consumed' = consumed /\ chan' \in {chan, Append(chan, None)}]_vars
    /\ [][~ignore_dup /\ consecutive_dup_count' >= Col /\ consecutive_dup_count < Col
            => WorkerStops]_vars
    /\ [][ignore_dup /\ WorkerStops
            => \/ (chan # <<>> /\ ~Head(chan).some)
               \/ panicked'
               \/ (w_pc = "rules" /\ w_result.val.level < MinLevel)]_vars

\* C3 witness: the worker has stopped on Col consecutive duplicates and has
\* returned while a further item is still unread in the channel
C3_Witness ==
    /\ ~ignore_dup
    /\ consecutive_dup_count = Col
    /\ w_pc = "done"
    /\ chan # <<>>
    /\ Head(chan).some

\* the worker applies its stop and dedup rules to the current record
RulesStep == w_pc = "rules" /\ w_pc' # "rules"

\* C4: for each recognised item at or above the level floor, if its content
\* is already in the accepted set the counter goes up by one and set and
\* output stay as they are; otherwise the counter becomes zero and the
\* record is added to the set and appended to the output.  Every recognised
\* item the worker takes goes through this step.
C4_DedupBookkeeping ==
    /\ [][(RulesStep /\ w_result.val.level >= MinLevel) =>
            IF \E x \in hash : ContentOf(x) = ContentOf(w_result.val)
            THEN /\ consecutive_dup_count' = consecutive_dup_count + 1
                 /\ hash' = hash
                 /\ results' = results
            ELSE /\ consecutive_dup_count' = 0
                 /\ hash' = hash \cup {w_result.val}
                 /\ results' = Append(results, w_result.val)]_vars
    /\ [][(consumed' # consumed /\ ~panicked'
             /\ Accepted(consumed'[Len(consumed')])) =>
            /\ w_pc' = "rules"
            /\ ContentOf(w_result'.val)
                 = ContentOf(Recognised(consumed'[Len(consumed')]).val)]_vars

\* C4 witness: three recognised items, the second a duplicate of the first
\* (dropped), the third new: the counter is back at zero
C4_Witness ==
    /\ Len(consumed) = 3
    /\ \A i \in 1..3 : Accepted(consumed[i])
    /\ w_pc = "recv"
    /\ results_src = <<1, 3>>
    /\ consecutive_dup_count = 0
    /\ Cardinality(hash) = 2

\* C5: the accepted set never holds two records of the same content, also
\* not when their lock flags differ; a record whose content is in the set
\* under the other lock flag leaves the set as it is and raises the counter
\* by one.
C5_LockIgnoredByEquality ==
    /\ [](\A x, y \in hash : ContentOf(x) = ContentOf(y) => x = y)
    /\ [][(RulesStep /\ w_result.val.level >= MinLevel
             /\ \E x \in hash : /\ ContentOf(x) = ContentOf(w_result.val)
                                /\ x.lock # w_result.val.lock) =>
            /\ hash' = hash
            /\ consecutive_dup_count' = consecutive_dup_count + 1]_vars

\* C5 witness: two items of the same content and different lock flags have
\* been processed: one member in the set, the counter at one
C5_Witness ==
    /\ w_pc = "recv"
    /\ Len(consumed) = 2
    /\ w_result.some
    /\ Cardinality(hash) = 1
    /\ consecutive_dup_count = 1
    /\ \E x \in hash : /\ ContentOf(x) = ContentOf(w_result.val)
                       /\ x.lock # w_result.val.lock

\* the i-th consumed item is recognised with a level below the floor
LowAt(i) ==
    Accepted(consumed[i]) /\ Recognised(consumed[i]).val.level < MinLevel

\* C6: an item recognised below the level floor is the last item the worker
\* consumes, it is not in the output, and the worker leaves its loop right
\* after publishing it; no record of the output or of what scan() returns
\* has a level below the floor.
C6_LevelFloor ==
    /\ \A i \in 1..Len(consumed) :
          LowAt(i) =>
             /\ i = Len(consumed)
             /\ i \notin Range(results_src)
             /\ w_pc \in {"rules", "exit", "done"}
             /\ (w_pc # "rules" => ~rx_alive)
    /\ \A i \in 1..Len(results) : results[i].level >= MinLevel
    /\ (ret.some /\ ret.val.ok) =>
          \A i \in 1..Len(ret.val.val) : ret.val.val[i].level >= MinLevel

\* C6 witness: scan() has returned a record, after the worker stopped on an
\* item below the level floor and left a later item unconsumed
C6_Witness ==
    /\ d_pc = "done"
    /\ ret.val.ok
    /\ Len(ret.val.val) >= 1
    /\ \E i \in 1..Len(consumed) : LowAt(i)
    /\ Len(pushed) > Len(consumed)

\* C7: with the feedback channel, the driver is never more than one item
\* ahead of what the worker has consumed and published: at most one item
\* is in the channel, and the driver is back at resuming the traversal with
\* an unpublished item only when the worker thread has ended.
C7_Backpressure ==
    Feedback =>
       /\ Len(pushed) - Len(consumed) <= 1
       /\ Len(pushed) - Len(published) <= 1
       /\ Cardinality({i \in 1..Len(chan) : chan[i].some}) <= 1
       /\ (d_pc = "resume" /\ Len(pushed) > Len(published)) => w_pc = "done"

\* C7 witness: with feedback, the third item is in the channel, the
\* outcomes of the first two are published
C7_Witness ==
    /\ Feedback
    /\ Len(pushed) = 3
    /\ Len(published) = 2
    /\ chan # <<>>
    /\ d_pc = "recv"

\* the message the worker owes for the i-th consumed item
Outcome(i) ==
    LET r == scan_item_image(consumed[i], locks[i])
    IN  IF r.ok THEN Some(r.val) ELSE None

\* C8: with the feedback channel the worker has published one message per
\* consumed item, the i-th being the record recognised from the i-th item
\* or the failure marker, already when it comes to its stop and dedup
\* rules; what the driver receives after its k-th push is the outcome of
\* the k-th pushed item.  Without the feedback channel nothing is published.
C8_FeedbackCorrelation ==
    /\ Feedback =>
          /\ ~panicked => Len(published) = Len(consumed)
          /\ \A i \in 1..Len(published) : published[i] = Outcome(i)
          /\ w_pc = "rules" => published[Len(consumed)] = w_result
          /\ Len(received) <= Len(pushed)
          /\ \A k \in 1..Len(received) :
                received[k].ok =>
                   /\ k <= Len(published)
                   /\ received[k].val = published[k]
                   /\ consumed[k] = pushed[k]
    /\ ~Feedback => published = <<>> /\ result_chan = <<>> /\ received = <<>>

\* C8 witness: the driver received a record, then the failure marker, then
\* a record that duplicates the first
C8_Witness ==
    /\ Feedback
    /\ Len(received) = 3
    /\ \A k \in 1..3 : received[k].ok
    /\ received[1].val.some
    /\ ~received[2].val.some
    /\ received[3].val.some
    /\ ResultEq(received[1].val.val, received[3].val.val)

\* the feedback for the k-th push calls for the lock action
LockWanted(k) ==
    /\ received[k].ok
    /\ received[k].val.some
    /\ \E i \in 1..Len(lock_list.val) : EntryMatches(lock_list.val[i], received[k].val.val)
    /\ ~received[k].val.val.lock

\* C9: without a lock list no lock action is ever taken; with one, the lock
\* action has been taken for exactly the pushed items whose feedback is a
\* record that the list contains and that is not shown as locked, once each.
C9_AutoLock ==
    /\ ~Feedback => lock_clicks = <<>>
    /\ Feedback =>
          /\ Range(lock_clicks) = {k \in 1..Len(received) : LockWanted(k)}
          /\ \A i, j \in 1..Len(lock_clicks) : i < j => lock_clicks[i] < lock_clicks[j]

\* C9 witness: the first item matched the list and was locked by the
\* driver, the second matched but is shown as locked and was left alone,
\* the third failed recognition
C9_Witness ==
    /\ Feedback
    /\ lock_clicks = <<1>>
    /\ Len(received) = 3
    /\ received[2].ok /\ received[2].val.some
    /\ LockListContains(lock_list.val, received[2].val.val)
    /\ received[2].val.val.lock
    /\ received[3].ok /\ ~received[3].val.some

\* C10: under fair scheduling of the two threads every session ends: the
\* driver has left its loop, sent the sentinel once, the worker thread has
\* returned and scan() has returned.
C10_Terminates ==
    <>(d_pc = "done" /\ w_pc = "done" /\ sentinels = 1 /\ ret.some)

\* C10 witness: scan() has returned in a session in which the driver's wait
\* for feedback was ended by the worker's exit, not by a message
C10_Witness ==
    /\ d_pc = "done"
    /\ ret.some
    /\ \E k \in 1..Len(received) : ~received[k].ok

\* the output record that came from the i-th pushed item, if there is one
InOutput(i) ==
    \E k \in 1..Len(results_src) :
       /\ results_src[k] = i
       /\ k <= Len(ret.val.val)
       /\ ContentOf(ret.val.val[k]) = ContentOf(Recognised(pushed[i]).val)

\* the i-th pushed item repeats the content of an earlier one that is in
\* the output
DuplicateOfEarlier(i) ==
    /\ Accepted(pushed[i])
    /\ \E k \in 1..Len(results_src) :
          /\ results_src[k] < i
          /\ ContentOf(results[k]) = ContentOf(Recognised(pushed[i]).val)

\* the worker stopped on the level floor at or before the i-th pushed item
LevelStopBy(i) ==
    /\ consumed # <<>>
    /\ Len(consumed) <= i
    /\ LowAt(Len(consumed))

\* the worker stopped on the duplicate threshold before the i-th pushed item
DupStopBefore(i) ==
    /\ ~ignore_dup
    /\ consecutive_dup_count >= Col
    /\ Len(consumed) < i

RuleStep(st, c, level) ==
    IF st.stopped THEN st
    ELSE IF level < MinLevel THEN [st EXCEPT !.stopped = TRUE]
    ELSE LET dup == c \in st.seen
             n == IF dup THEN st.dup + 1 ELSE 0
         IN  [out |-> IF dup THEN st.out ELSE Append(st.out, c),
              seen |-> st.seen \cup {c},
              dup |-> n,
              stopped |-> n >= Col /\ ~ignore_dup]

\* the bookkeeping after the rules have been applied to the recognised
\* items of a sequence in which every item is recognised
RECURSIVE RulesOver(_, _)
RulesOver(items, st) ==
    IF items = <<>> THEN st
    ELSE LET r == Recognised(Head(items)).val
         IN  RulesOver(Tail(items), RuleStep(st, ContentOf(r), r.level))

\* the items the worker has finished with
Processed ==
    IF w_pc = "rules" THEN Front(consumed, Len(consumed) - 1) ELSE consumed

\* the bookkeeping a worker would have that had been given only the
\* recognised items among the processed ones
WithoutFailed ==
    RulesOver(SelectSeq(Processed, Accepted),
              [out |-> <<>>, seen |-> {}, dup |-> 0, stopped |-> FALSE])

\* the worker takes an item that it fails to recognise
FailedItemStep ==
    /\ consumed' # consumed
    /\ ~panicked'
    /\ ~Accepted(consumed'[Len(consumed')])

\* C12: the step in which the worker takes an item whose recognition, crop
\* check or level parsing fails leaves the accepted set, the output and the
\* duplicate counter as they are, publishes the failure marker when the
\* feedback channel is configured (and nothing otherwise), and leaves the
\* worker in its loop, ready for the next item; at any time the output, the
\* counter and the fact of having stopped are what the rules give on the
\* recognised items alone, as if the failed ones had not been there.
C12_ErrorIsolation ==
    /\ [][FailedItemStep =>
            /\ hash' = hash
            /\ results' = results
            /\ consecutive_dup_count' = consecutive_dup_count
            /\ w_pc' = "recv"
            /\ rx_alive'
            /\ IF Feedback
               THEN /\ published' = Append(published, None)
                    /\ result_chan' = Append(result_chan, None)
               ELSE published' = published /\ result_chan' = result_chan]_vars
    /\ [](~panicked =>
            LET kept == WithoutFailed
            IN  /\ [i \in 1..Len(results) |-> ContentOf(results[i])] = kept.out
                /\ {ContentOf(x) : x \in hash} = kept.seen
                /\ consecutive_dup_count = kept.dup
                /\ kept.stopped => w_pc \in {"exit", "done"})

\* C12 witness: between two recognised items the worker took one whose name
\* could not be read and one whose level did not parse; both failures were
\* published, and the fourth item, a repeat of the first, was counted as
\* its duplicate
C12_Witness ==
    /\ Feedback
    /\ Len(consumed) = 4
    /\ w_pc = "recv"
    /\ ~Accepted(consumed[2]) /\ ~consumed[2].panel_image.title.ok
    /\ ~Accepted(consumed[3]) /\ consumed[3].panel_image.title.ok
    /\ Accepted(consumed[4])
    /\ results_src = <<1>>
    /\ consecutive_dup_count = 1
    /\ published[2] = None /\ published[3] = None

\* the number of consumed items the worker failed to recognise
FailedCount == Cardinality({i \in 1..Len(consumed) : ~Accepted(consumed[i])})

PanicReturned == ret.some /\ ~ret.val.ok /\ panicked

\* the Scan-items among the messages of a channel, in order
RECURSIVE ItemsIn(_)
ItemsIn(q) ==
    IF q = <<>> THEN <<>>
    ELSE IF Head(q).some THEN <<Head(q).val>> \o ItemsIn(Tail(q))
    ELSE ItemsIn(Tail(q))

\* the worker left its loop by one of its own stop rules or by a panic
EarlyStop ==
    \/ panicked
    \/ consumed # <<>> /\ LowAt(Len(consumed))
    \/ ~ignore_dup /\ consecutive_dup_count >= Col

\* C14 as stated: when the session has ended, every pushed item has been
\* consumed by the worker.
C14_AllConsumedAtEnd ==
    d_pc = "done" => consumed = pushed

\* C14: every pushed item is at any time either consumed once or still
\* unread in the channel, in push order (none is consumed twice, none is
\* lost); when the session has ended every pushed item has been consumed
\* unless the worker left its loop early, by the level floor, the duplicate
\* threshold or a panic; after that the items still in the channel are never
\* consumed.
C14_ConsumedOnce ==
    /\ [](pushed = consumed \o ItemsIn(chan))
    /\ []((d_pc = "done" /\ ~EarlyStop) => consumed = pushed)
    /\ [][~rx_alive => consumed' = consumed]_vars

\* C14 witness: a session that ended without an early stop of the worker,
\* with all four pushed items consumed
C14_Witness ==
    /\ d_pc = "done"
    /\ ~EarlyStop
    /\ Len(pushed) = 4
    /\ consumed = pushed

\* the way the driver's loop ended, read from the history
LoopExit ==
    IF traversal # "Running" THEN traversal
    ELSE IF sampled # <<>> /\ sampled[Len(sampled)] < MinStar THEN "BelowFloor"
    ELSE IF Len(sampled) > Len(pushed) THEN "FailedPush"
    ELSE "None"

\* the sentinel send has been attempted
SentinelSent == sentinels = 1

\* C15: the driver attempts the sentinel send at most once; it has attempted
\* it exactly once as soon as it has left the sentinel step, which it enters
\* from every end of its loop (Finished, Interrupted, traversal error, a tier
\* below the floor, a failed push) and from nowhere else; the sentinel is
\* only ever the last message in the channel, and once the send has been
\* attempted no Scan-item is pushed and the channel gets no new message.
C15_SentinelProtocol ==
    /\ [](sentinels \in {0, 1})
    /\ [](d_pc \in {"resume", "recv", "sentinel"} <=> sentinels = 0)
    /\ [](d_pc \in {"sentinel", "join", "done"}
            <=> LoopExit \in {"Finished", "Interrupted", "Error", "BelowFloor",
                              "FailedPush"})
    /\ [](\A i \in 1..Len(chan) : ~chan[i].some => i = Len(chan))
    /\ [][sentinels' # sentinels =>
            /\ d_pc = "sentinel" /\ sentinels' = 1 /\ pushed' = pushed
            /\ chan' = IF rx_alive THEN Append(chan, None) ELSE chan]_vars
    /\ [][SentinelSent =>
            /\ pushed' = pushed
            /\ sentinels' = 1
            /\ Len(chan') <= Len(chan)]_vars

\* C15 witness: the loop ended on a failed push (the worker had stopped),
\* and the sentinel send was attempted once, after three pushes
C15_Witness ==
    /\ LoopExit = "FailedPush"
    /\ sentinels = 1
    /\ d_pc = "done"
    /\ Len(pushed) = 3

\* the least k with k * b >= a, for a >= 1
Ceil(a, b) == CHOOSE k \in 1..a : (k - 1) * b < a /\ a <= k * b

\* C16: for a window of rows x cols, total count M and zero-based cursor
\* i < M, get_start_row returns 0 when M - i >= rows * cols, and otherwise
\* rows - min(ceil((M - i) / cols), rows); for M = 20, rows = 4, cols = 5,
\* i = 17 it returns 3.
C16_StartRow ==
    fn_out.some =>
       LET rows == fn_arg.rows
           cols == fn_arg.cols
           remaining == fn_arg.max_count - fn_arg.cur_index
       IN  /\ fn_out.val = IF remaining >= rows * cols
                           THEN 0
                           ELSE rows - Min(Ceil(remaining, cols), rows)
           /\ (fn_arg.max_count = 20 /\ rows = 4 /\ cols = 5 /\ fn_arg.cur_index = 17)
                 => fn_out.val = 3

\* C16 witness: get_start_row has returned 3 for M = 20, rows = 4, cols = 5,
\* i = 17
C16_Witness ==
    /\ fn_out = Some(3)
    /\ fn_arg = [rows |-> 4, cols |-> 5, max_count |-> 20, cur_index |-> 17]

\* C17: is_page_first_artifact(i) is true exactly for the indices i that are
\* multiples of rows * cols, and the k-th item pushed in a session (counted
\* from zero) carries a list image exactly when k is a multiple of
\* rows * cols; the same holds for the items as the worker takes them.
C17_PageFirst ==
    /\ \A i \in 0..(2 * Row * Col) :
          is_page_first_artifact(i) <=> (\E p \in 0..i : i = p * (Row * Col))
    /\ \A k \in 1..Len(pushed) :
          pushed[k].list_image.some <=> (k - 1) % (Row * Col) = 0
    /\ \A k \in 1..Len(consumed) :
          consumed[k].list_image.some <=> (k - 1) % (Row * Col) = 0

\* C17 witness: five items were pushed; the first and the fifth, which open
\* the two pages, carry a list image and the three between them carry none
C17_Witness ==
    /\ Len(pushed) = Row * Col + 1
    /\ pushed[1].list_image.some
    /\ pushed[Row * Col + 1].list_image.some
    /\ \A k \in 2..(Row * Col) : ~pushed[k].list_image.some

\* the page size, and the item (counted from one) that opens the page of
\* the k-th item
PageSize == Row * Col

PageFirstOf(k) == ((k - 1) \div PageSize) * PageSize + 1

\* the lock state the list view shows for the k-th pushed item: the icon in
\* the cell that displays it in the list image captured for its own page.
\* The image starts at the page's start row, where the first item of the
\* page is displayed, so the item at offset o of its page is in row
\* o / cols and column o % cols of the image.
ShownLocked(k) ==
    LET image == pushed[PageFirstOf(k)].list_image.val
        o == (k - 1) % PageSize
    IN  <<o \div Col, o % Col>> \in image.locked

\* C18: for every item the worker has looked up a lock state for, that state
\* is the one the list image of the item's own page shows in the item's own
\* cell, also on a partial final page and after failed items; it is the
\* lock flag of the record recognised from the item, wherever that record
\* goes (the current record, the feedback channel, the output).
C18_LockCorrelation ==
    /\ \A k \in 1..Len(consumed) :
          (k <= Len(locks) /\ locks[k] = ShownLocked(k))
             \/ (panicked /\ k = Len(consumed))
    /\ (w_pc = "rules") => w_result.val.lock = ShownLocked(Len(consumed))
    /\ Feedback =>
          \A k \in 1..Len(published) :
             published[k].some => published[k].val.lock = ShownLocked(k)
    /\ \A j \in 1..Len(results) : results[j].lock = ShownLocked(results_src[j])

\* C18 witness: five items over two pages, the second of them a partial
\* final page whose image starts at row 1; the second item failed; the
\* records of items 1, 3 and 5 were published as locked and that of item 4
\* as not locked
C18_Witness ==
    /\ Feedback
    /\ count = 5
    /\ Len(published) = 5
    /\ get_start_row(count, 4) = 1
    /\ published[1].some /\ published[1].val.lock
    /\ ~published[2].some
    /\ published[3].some /\ published[3].val.lock
    /\ published[4].some /\ ~published[4].val.lock
    /\ published[5].some /\ published[5].val.lock

\* a string without its leading and trailing whitespace: what lies between
\* its first and its last character that is not whitespace
Core(s) ==
    LET solid == {i \in 1..Len(s) : s[i] \notin {" ", "\t", "\n"}}
    IN  IF solid = {} THEN <<>>
        ELSE SubSeq(s, CHOOSE i \in solid : \A j \in solid : i <= j,
                       CHOOSE i \in solid : \A j \in solid : j <= i)

\* the strings an entry and a record are matched on, in order
MatchedFields(x) ==
    <<x.name, x.main_stat_name, x.main_stat_value, x.sub_stat[1], x.sub_stat[2],
      x.sub_stat[3], x.sub_stat[4]>>

\* the record with other values in the fields that are not matched on
OtherRest(r) ==
    [r EXCEPT !.level = 20 - r.level, !.equip = <<"q">>, !.star = 9 - r.star,
              !.lock = ~r.lock]

\* C19: contains(r) is true exactly when some entry agrees with r in all
\* seven matched strings (name, main stat name and value, the four sub-stats
\* in order) once the whitespace around each is removed; a difference in one
\* string, in case or in interior whitespace too, rules the entry out; the
\* empty list contains nothing; level, equip, rarity and lock flag of the
\* record do not change the answer.
C19_LockListContains ==
    fn_out.some =>
       LET list == fn_arg.list
           r == fn_arg.r
       IN  /\ fn_out.val <=>
                \E i \in 1..Len(list) :
                   \A f \in 1..7 :
                      Core(MatchedFields(list[i])[f]) = Core(MatchedFields(r)[f])
           /\ list = <<>> => ~fn_out.val
           /\ fn_out.val = LockListContains(list, OtherRest(r))

\* C19 witness: a record whose name carries a trailing tab is found in a
\* list whose second entry has the name with other padding, the first entry
\* differing by an interior blank
C19_Witness ==
    /\ fn_out = Some(TRUE)
    /\ fn_arg.list = <<EntryInterior, EntryPadded>>
    /\ fn_arg.r.name = <<"a", "\t">>
    /\ fn_arg.r.sub_stat[4] = <<"w", "+", "4", " ">>

ClampedCount == fn_arg.number = 5000 /\ count = 2400

(***************************************************************************)
(* scan_item_image on one panel image.                                     *)
(***************************************************************************)
TxtParses == <<"w", "+", "4">>
TxtNoStat == <<"w", "4">>
TxtNoKey == <<"+", "4">>
ShiftedSubStats == <<Txt(<<"x", "+", "1">>), Txt(<<"y", "+", "2">>), Txt(<<"z", "+", "3">>)>>

\* at most one rectangle cannot be read as calibrated
FailingRects == {{}} \cup {{RectOrder[k]} : k \in 1..Len(RectOrder)}

ReadOr(failing, rect, text) == IF rect \in failing THEN Fail ELSE Txt(text)

\* level texts: a number after the separator, a bare number, letters, a prefix
\* before the separator, a separator alone, and a doubled separator
LevelTexts ==
    {LevelHigh, <<"1", "2">>, LevelBad, <<"a", "+", "5">>, <<"+">>, <<"+", "+", "1">>}

\* the panel images the recognition is applied to
ScanPanels ==
    {[title |-> ReadOr(f, "title", <<"a">>),
      main_stat_name |-> ReadOr(f, "main_stat_name", <<"h", "p">>),
      main_stat_value |-> ReadOr(f, "main_stat_value", <<"7">>),
      sub_stat |-> <<ReadOr(f, "sub_stat_1", <<"u", "+", "1">>),
                     ReadOr(f, "sub_stat_2", <<"v", "+", "2">>),
                     ReadOr(f, "sub_stat_3", <<"t", "+", "3">>),
                     ReadOr(f, "sub_stat_4", s4)>>,
      sub_stat_4_pending |-> pend,
      level |-> ReadOr(f, "level", lv),
      equip |-> ReadOr(f, "equip", <<"e">>),
      frost_match |-> fm,
      shifted |-> sh] :
        f \in FailingRects,
        s4 \in {TxtParses, TxtNoStat, TxtNoKey},
        pend \in {Txt(<<"p", "+", "5">>), Txt(<<"p", "5">>), Fail},
        lv \in LevelTexts,
        fm \in {0, 8, 9, 10},
        sh \in {Shifted(ShiftedSubStats \o <<Txt(s)>>, p, l) :
                  s \in {TxtParses, TxtNoStat},
                  p \in {Txt(<<"q", "+", "6">>), Fail},
                  l \in {Txt(<<"+", "1", "6">>), Fail}}}

ScanInit ==
    /\ NoSession
    /\ fn_arg \in [panel : ScanPanels, offset : {0, BlessedFrostOffsetY}]
    /\ fn_out = NoCall

ApplyScan ==
    /\ fn_out = NoCall
    /\ fn_out' = Some(ScanItem([panel_image |-> fn_arg.panel, star |-> 5], FALSE,
                               fn_arg.offset))
    /\ UNCHANGED <<fn_arg, session_vars>>

ScanSpec == ScanInit /\ [][ApplyScan]_vars

\* the calls of the finished scan, and those on one rectangle
ScanCalls == fn_out.val.calls

CallsOn(rect) == {k \in 1..Len(ScanCalls) : ScanCalls[k].rect = rect}

PendingCalls == {k \in 1..Len(ScanCalls) : ScanCalls[k].variant = "pending"}

\* what the image shows at the place a call on the fourth sub-stat looked at
FourthNormalAt(call) ==
    IF call.dy = 0 THEN fn_arg.panel.sub_stat[4] ELSE fn_arg.panel.shifted.sub_stat[4]

FourthPendingAt(call) ==
    IF call.dy = 0 THEN fn_arg.panel.sub_stat_4_pending
    ELSE fn_arg.panel.shifted.sub_stat_4_pending

\* C21: the pending-line variant is called, once and on the fourth sub-stat
\* rectangle only, iff the ordinary call on that rectangle was made, succeeded
\* and read a text that is not a stat; a text that parses is used unchanged,
\* otherwise the pending-line text is used whether or not it parses; the
\* first three sub-stats are read once each at most, with the ordinary
\* variant.
C21_FourthSubStatRetry ==
    fn_out.some =>
        /\ \A k \in PendingCalls : ScanCalls[k].rect = "sub_stat_4"
        /\ Cardinality(PendingCalls) <= 1
        /\ Cardinality(CallsOn("sub_stat_4") \ PendingCalls) <= 1
        /\ (PendingCalls # {}) <=>
              \E k \in CallsOn("sub_stat_4") :
                  /\ ScanCalls[k].variant = "normal"
                  /\ FourthNormalAt(ScanCalls[k]).ok
                  /\ ~StatParses(FourthNormalAt(ScanCalls[k]).val)
        /\ \A k \in PendingCalls : k > 1 /\ ScanCalls[k - 1].rect = "sub_stat_4"
                                         /\ ScanCalls[k - 1].variant = "normal"
                                         /\ ScanCalls[k - 1].dy = ScanCalls[k].dy
        /\ fn_out.val.ok =>
              \E k \in CallsOn("sub_stat_4") :
                  /\ ScanCalls[k].variant = "normal"
                  /\ fn_out.val.val.sub_stat[4] =
                        IF StatParses(FourthNormalAt(ScanCalls[k]).val)
                        THEN FourthNormalAt(ScanCalls[k]).val
                        ELSE FourthPendingAt(ScanCalls[k]).val
        /\ \A rect \in {"sub_stat_1", "sub_stat_2", "sub_stat_3"} :
              /\ Cardinality(CallsOn(rect)) <= 1
              /\ \A k \in CallsOn(rect) : ScanCalls[k].variant = "normal"
              /\ fn_out.val.ok => Cardinality(CallsOn(rect)) = 1

\* a record whose fourth sub-stat is a pending-line text that is not a stat
C21_Witness ==
    /\ fn_out.some
    /\ fn_out.val.ok
    /\ PendingCalls # {}
    /\ ~StatParses(fn_out.val.val.sub_stat[4])
    /\ fn_out.val.val.sub_stat[4] = <<"p", "5">>

\* the level text a finished scan read: the text of its call on the level
\* rectangle
LevelRead ==
    LET k == CHOOSE k \in CallsOn("level") : TRUE
    IN  IF ScanCalls[k].dy = 0 THEN fn_arg.panel.level ELSE fn_arg.panel.shifted.level

\* the digits of a level text: what follows the first '+', or the whole text
\* less a leading minus sign when there is no '+'
LevelBody(s) ==
    IF \E i \in 1..Len(s) : s[i] = "+"
    THEN SubSeq(s, FindPlus(s) + 1, Len(s))
    ELSE IF s # <<>> /\ Head(s) = "-" THEN Tail(s) ELSE s

LevelIsNumber(s) ==
    LevelBody(s) # <<>> /\ \A i \in 1..Len(LevelBody(s)) : IsDigit(LevelBody(s)[i])

LevelNumber(s) ==
    IF s # <<>> /\ Head(s) = "-" THEN -DigitsVal(LevelBody(s), 0)
    ELSE DigitsVal(LevelBody(s), 0)

\* every rectangle was read
AllRead == \A k \in 1..Len(RectOrder) :
               \E c \in CallsOn(RectOrder[k]) :
                   (IF ScanCalls[c].variant = "pending"
                    THEN FourthPendingAt(ScanCalls[c])
                    ELSE IF ScanCalls[c].dy = 0
                         THEN Calibrated(fn_arg.panel, RectOrder[k])
                         ELSE Translated(fn_arg.panel, RectOrder[k])).ok

PendingRead == \A c \in PendingCalls : FourthPendingAt(ScanCalls[c]).ok

\* C22: parse_level reads the number after the first '+', or the whole text
\* when there is no '+'; an item all of whose rectangles were read yields a
\* record iff its level text is such a number, the record carries that
\* number, and an item whose level does not parse yields an error and no
\* record (never a record with a default level).
C22_LevelParsing ==
    fn_out.some =>
        /\ (AllRead /\ PendingRead) =>
              /\ fn_out.val.ok <=> LevelIsNumber(LevelRead.val)
              /\ fn_out.val.ok => fn_out.val.val.level = LevelNumber(LevelRead.val)
        /\ fn_out.val.ok => AllRead /\ PendingRead
        /\ ~fn_out.val.ok => "val" \notin DOMAIN fn_out.val

\* every rectangle was read, the level is not a number, and the item failed
C22_Witness ==
    /\ fn_out.some
    /\ AllRead /\ PendingRead
    /\ LevelRead.val = LevelBad
    /\ ~fn_out.val.ok

\* the marker is detected in the panel: a detect rectangle is configured and
\* at least nine tenths of its pixels have the marker colour
MarkerDetected ==
    FrostDetectHeight > 0 /\ fn_arg.panel.frost_match * 10 >= FrostDetectPixels * 9

FrostRects == {"level", "sub_stat_1", "sub_stat_2", "sub_stat_3", "sub_stat_4"}

\* C27: every recognition call on the level rectangle or a sub-stat
\* rectangle looks at the rectangle moved by the configured offset when the
\* offset is non-zero and the marker is detected; every other call, and
\* every call when no marker is detected or the offset is zero, looks at the
\* rectangle as calibrated; the record is made of the texts at those places.
C27_BlessedFrostOffset ==
    fn_out.some =>
        /\ \A k \in 1..Len(ScanCalls) :
              ScanCalls[k].dy =
                  IF /\ ScanCalls[k].rect \in FrostRects
                     /\ fn_arg.offset # 0
                     /\ MarkerDetected
                  THEN fn_arg.offset ELSE 0
        /\ fn_out.val.ok =>
              /\ fn_out.val.val.name = fn_arg.panel.title.val
              /\ fn_out.val.val.main_stat_name = fn_arg.panel.main_stat_name.val
              /\ fn_out.val.val.main_stat_value = fn_arg.panel.main_stat_value.val
              /\ fn_out.val.val.equip = fn_arg.panel.equip.val
              /\ \A i \in 1..3 :
                    fn_out.val.val.sub_stat[i] =
                        IF fn_arg.offset # 0 /\ MarkerDetected
                        THEN fn_arg.panel.shifted.sub_stat[i].val
                        ELSE fn_arg.panel.sub_stat[i].val
              /\ fn_out.val.val.level =
                    LevelNumber(IF fn_arg.offset # 0 /\ MarkerDetected
                                THEN fn_arg.panel.shifted.level.val
                                ELSE fn_arg.panel.level.val)

\* a record read with the offset applied: the level and the sub-stats come
\* from the moved rectangles, the equip text from the calibrated one
C27_Witness ==
    /\ fn_out.some
    /\ fn_out.val.ok
    /\ fn_arg.panel.frost_match = 9
    /\ \E k \in CallsOn("level") : ScanCalls[k].dy = BlessedFrostOffsetY
    /\ \E k \in CallsOn("equip") : ScanCalls[k].dy = 0
    /\ fn_out.val.val.level = 16
    /\ fn_out.val.val.sub_stat[1] = <<"x", "+", "1">>
    /\ fn_out.val.val.equip = <<"e">>

\* the marker covers less than nine tenths of the detect rectangle: nothing
\* is moved although an offset is configured
C27_WitnessNoMarker ==
    /\ fn_out.some
    /\ fn_out.val.ok
    /\ fn_arg.offset # 0
    /\ fn_arg.panel.frost_match = 8
    /\ \A k \in 1..Len(ScanCalls) : ScanCalls[k].dy = 0

(***************************************************************************)
(* The recognition calls of a session, each with a begin and an end step:  *)
(* scan() reads the item count, starts the worker and sends the items; the *)
(* worker thread makes the calls of scan_item_image for each item it takes.*)
(* d_pc is "start", "counting", "counted", "send" or "done"; w_pc is       *)
(* "unborn", "recv", "scan", "calling" or "done"; fn_out holds the calls   *)
(* in progress, the calls the worker has begun for its current item and    *)
(* the calls that item still needs.                                        *)
(***************************************************************************)
RetryPanel == [Panel(Txt(<<"a">>), LevelHigh) EXCEPT !.sub_stat[4] = Txt(TxtNoStat)]

FrostPanel ==
    [Panel(Txt(<<"b">>), LevelLow) EXCEPT
        !.frost_match = FrostDetectPixels,
        !.shifted = Shifted(ShiftedSubStats \o <<Txt(TxtParses)>>, Fail,
                            Txt(<<"+", "1", "6">>))]

RecogPanels == {ItemA.panel, ItemUnreadable.panel, RetryPanel, FrostPanel}

MaxRecogItems == 2

RecogItems ==
    {<<>>} \cup UNION {[1..n -> RecogPanels] : n \in 1..MaxRecogItems}

\* the configured number, and what the count area reads as
RecogCounts ==
    {[number |-> 1, text |-> Fail],
     [number |-> 0, text |-> Txt(ItemName \o <<" ", "3", "/", "1", "8", "0", "0">>)],
     [number |-> 0, text |-> Fail]}

recog_rest ==
    <<screens, lock_patterns, window_height, lock_list, ignore_dup, fn_arg, cursor,
      traversal, rx_alive, result_chan, result_tx_alive, w_index, w_result, locks,
      hash, results, consecutive_dup_count, panicked, ret, lock_clicks, sampled,
      pushed, consumed, published, received, results_src, sentinels>>

RecogInit ==
    /\ screens = {} /\ lock_patterns = {} /\ window_height = WindowHeight
    /\ lock_list = None /\ ignore_dup = FALSE
    /\ cursor = 0 /\ traversal = "Running" /\ rx_alive = TRUE
    /\ result_chan = <<>> /\ result_tx_alive = FALSE
    /\ w_index = 0 /\ w_result = None /\ locks = <<>> /\ hash = {}
    /\ results = <<>> /\ consecutive_dup_count = 0 /\ panicked = FALSE
    /\ ret = None /\ lock_clicks = <<>> /\ sampled = <<>> /\ pushed = <<>>
    /\ consumed = <<>> /\ published = <<>> /\ received = <<>>
    /\ results_src = <<>> /\ sentinels = 0
    /\ fn_arg \in [counted : RecogCounts, items : RecogItems]
    /\ fn_out = [active |-> <<>>, log |-> <<>>, plan |-> <<>>, driver_calls |-> 0]
    /\ count = 0
    /\ d_pc = "start"
    /\ d_index = 0
    /\ chan = <<>>
    /\ w_pc = "unborn"

\* get_item_count with a positive configured number returns without reading
\* the screen
RecogCountConfigured ==
    /\ d_pc = "start"
    /\ fn_arg.counted.number > 0
    /\ count' = get_item_count(fn_arg.counted.number, <<>>)
    /\ d_pc' = "counted"
    /\ UNCHANGED <<fn_out, d_index, chan, w_pc, recog_rest>>

\* get_item_count: image_to_text on the count area is entered
RecogCountBegin ==
    /\ d_pc = "start"
    /\ fn_arg.counted.number <= 0
    /\ d_pc' = "counting"
    /\ fn_out' = [fn_out EXCEPT !.active = Append(@, "driver"),
                                !.driver_calls = @ + 1]
    /\ UNCHANGED <<count, d_index, chan, w_pc, recog_rest>>

\* image_to_text returns: its error is the error of scan(), its text gives
\* the count
RecogCountEnd ==
    /\ d_pc = "counting"
    /\ fn_out' = [fn_out EXCEPT !.active = SelectSeq(@, LAMBDA c : c # "driver")]
    /\ IF fn_arg.counted.text.ok
       THEN /\ count' = get_item_count(fn_arg.counted.number, fn_arg.counted.text.val)
            /\ d_pc' = "counted"
       ELSE /\ d_pc' = "done"
            /\ UNCHANGED count
    /\ UNCHANGED <<d_index, chan, w_pc, recog_rest>>

\* variant: the worker started before the item count is read
WorkerStartsAt_First == "start"

\* scan(): worker.run is called after get_item_count has returned
WorkerStartsAt == "counted"

\* worker.run: the worker thread is spawned
RecogSpawn ==
    /\ w_pc = "unborn"
    /\ d_pc = WorkerStartsAt
    /\ w_pc' = "recv"
    /\ UNCHANGED <<fn_out, count, d_pc, d_index, chan, recog_rest>>

\* scan() calls send() once the worker runs
RecogEnterSend ==
    /\ d_pc = "counted"
    /\ w_pc # "unborn"
    /\ d_pc' = "send"
    /\ UNCHANGED <<fn_out, count, d_index, chan, w_pc, recog_rest>>

\* send(): the next item is pushed
RecogSend ==
    /\ d_pc = "send"
    /\ d_index < Min(count, Len(fn_arg.items))
    /\ chan' = Append(chan, Some(fn_arg.items[d_index + 1]))
    /\ d_index' = d_index + 1
    /\ UNCHANGED <<fn_out, count, d_pc, w_pc, recog_rest>>

\* scan(): the sentinel follows the return of send()
RecogSentinel ==
    /\ d_pc = "send"
    /\ d_index >= Min(count, Len(fn_arg.items))
    /\ chan' = Append(chan, None)
    /\ d_pc' = "done"
    /\ UNCHANGED <<fn_out, count, d_index, w_pc, recog_rest>>

\* the worker takes a message: the sentinel ends it, an item starts
\* scan_item_image
RecogTake ==
    /\ w_pc = "recv"
    /\ chan # <<>>
    /\ chan' = Tail(chan)
    /\ IF Head(chan).some
       THEN /\ w_pc' = "scan"
            /\ fn_out' = [fn_out EXCEPT
                  !.log = <<>>,
                  !.plan = ScanItem([panel_image |-> Head(chan).val, star |-> 5],
                                    FALSE, BlessedFrostOffsetY).calls]
       ELSE /\ w_pc' = "done"
            /\ UNCHANGED fn_out
    /\ UNCHANGED <<count, d_pc, d_index, recog_rest>>

\* scan_item_image enters its next recognition call
RecogCallBegin ==
    /\ w_pc = "scan"
    /\ fn_out.plan # <<>>
    /\ w_pc' = "calling"
    /\ fn_out' = [fn_out EXCEPT !.active = Append(@, "worker"),
                                !.log = Append(@, Head(fn_out.plan)),
                                !.plan = Tail(@)]
    /\ UNCHANGED <<count, d_pc, d_index, chan, recog_rest>>

\* the call returns
RecogCallEnd ==
    /\ w_pc = "calling"
    /\ w_pc' = "scan"
    /\ fn_out' = [fn_out EXCEPT !.active = SelectSeq(@, LAMBDA c : c # "worker")]
    /\ UNCHANGED <<count, d_pc, d_index, chan, recog_rest>>

\* scan_item_image returns and the worker loops
RecogItemDone ==
    /\ w_pc = "scan"
    /\ fn_out.plan = <<>>
    /\ w_pc' = "recv"
    /\ UNCHANGED <<fn_out, count, d_pc, d_index, chan, recog_rest>>

RecogNext ==
    \/ RecogCountConfigured
    \/ RecogCountBegin
    \/ RecogCountEnd
    \/ RecogSpawn
    \/ RecogEnterSend
    \/ RecogSend
    \/ RecogSentinel
    \/ RecogTake
    \/ RecogCallBegin
    \/ RecogCallEnd
    \/ RecogItemDone

RecogSpec == RecogInit /\ [][RecogNext]_vars

\* the position of a rectangle in the order of the calls
RectIndex(rect) == CHOOSE k \in 1..Len(RectOrder) : RectOrder[k] = rect

\* C30: at most one recognition call is in progress at any time; the driver
\* makes at most one call, and it has returned before the worker is started;
\* the calls the worker makes for an item go through the rectangles title,
\* main-stat name, main-stat value, sub-stats 1 to 4, level, equip in this
\* order, one ordinary call each, with a pending-line call only directly
\* after the ordinary call on the fourth sub-stat.
C30_RecognitionNotReentered ==
    /\ Len(fn_out.active) <= 1
    /\ fn_out.driver_calls <= 1
    /\ w_pc # "unborn" => d_pc \notin {"start", "counting"}
    /\ \A k \in 1..Len(fn_out.log) :
          IF fn_out.log[k].variant = "normal"
          THEN RectIndex(fn_out.log[k].rect) = Cardinality({j \in 1..k : fn_out.log[j].variant = "normal"})
          ELSE /\ k > 1
               /\ fn_out.log[k].rect = "sub_stat_4"
               /\ fn_out.log[k - 1].rect = "sub_stat_4"
               /\ fn_out.log[k - 1].variant = "normal"

\* the driver's call was made and the worker is in the pending-line retry of
\* its second item while the driver has finished sending
C30_Witness ==
    /\ fn_out.driver_calls = 1
    /\ w_pc = "calling"
    /\ fn_out.active = <<"worker">>
    /\ Len(fn_out.log) = 8
    /\ fn_out.log[8].variant = "pending"
    /\ d_pc = "done"

(***************************************************************************)
(* get_star on one sampled colour (artifact_scanner.rs).                   *)
(***************************************************************************)
\* color_distance: the squared Euclidean distance of two colours
color_distance(c1, c2) ==
    LET x == c1[1] - c2[1]
        y == c1[2] - c2[2]
        z == c1[3] - c2[3]
    IN  x * x + y * y + z * z

match_colors ==
    <<<<113, 119, 139>>, <<42, 143, 114>>, <<81, 127, 203>>, <<161, 86, 224>>,
      <<188, 105, 50>>>>

\* min_dis starts at 0xdeadbeef = 3735928559, above every distance (at most
\* 3 * 255 * 255); the largest integer of the checker stands for it
MinDisInit == 2147483647

\* variant: a colour as near as the nearest so far replaces it
Nearer_OrEqual(dis2, min_dis) == dis2 <= min_dis

Nearer(dis2, min_dis) == dis2 < min_dis

\* the loop of get_star from the i-th palette colour on
RECURSIVE StarLoop(_, _, _, _)
StarLoop(color, i, min_dis, star) ==
    IF i > Len(match_colors) THEN star
    ELSE LET dis2 == color_distance(match_colors[i], color)
         IN  IF Nearer(dis2, min_dis)
             THEN StarLoop(color, i + 1, dis2, i)
             ELSE StarLoop(color, i + 1, min_dis, star)

get_star(color) == StarLoop(color, 1, MinDisInit, 1)

\* the sampled colours: a grid over the channel values of the palette, the
\* ends of the range and values in between, and colours equally near to
\* two or three palette colours
ChannelValues ==
    {0, 42, 50, 57, 81, 86, 99, 105, 113, 119, 127, 139, 143, 154, 161, 188, 203,
     224, 255}

TieColours ==
    {<<0, 88, 177>>, <<26, 0, 147>>, <<27, 3, 151>>, <<48, 3, 1>>, <<57, 99, 154>>,
     <<61, 3, 240>>, <<80, 49, 45>>, <<86, 9, 174>>, <<168, 4, 126>>}

SampledColours ==
    {<<r, g, b>> : r \in ChannelValues, g \in ChannelValues, b \in ChannelValues}
        \cup TieColours

StarInit ==
    /\ NoSession
    /\ fn_arg \in SampledColours
    /\ fn_out = NoCall

ApplyStar ==
    /\ fn_out = NoCall
    /\ fn_out' = Some(get_star(fn_arg))
    /\ UNCHANGED <<fn_arg, session_vars>>

StarSpec == StarInit /\ [][ApplyStar]_vars

\* the squared distance of the sampled colour to the palette colour of a tier
TierDistance(t) ==
    (match_colors[t][1] - fn_arg[1]) ^ 2 + (match_colors[t][2] - fn_arg[2]) ^ 2
        + (match_colors[t][3] - fn_arg[3]) ^ 2

\* C23: get_star returns a tier in 1..5 whose palette colour is at the
\* smallest squared distance from the sampled colour, and every lower tier
\* is strictly farther: of equally near colours the lower tier is returned.
C23_RarityClassification ==
    fn_out.some =>
        /\ fn_out.val \in 1..5
        /\ \A t \in 1..5 : TierDistance(fn_out.val) <= TierDistance(t)
        /\ \A t \in 1..(fn_out.val - 1) : TierDistance(fn_out.val) < TierDistance(t)

\* a colour equally near to the palette colours of tiers 1, 2 and 3 is
\* classified as tier 1
C23_Witness ==
    /\ fn_out.some
    /\ fn_arg = <<57, 99, 154>>
    /\ TierDistance(1) = TierDistance(2) /\ TierDistance(2) = TierDistance(3)
    /\ fn_out.val = 1

\* a colour equally near to tiers 4 and 5 is classified as tier 4
C23_WitnessUpperTie ==
    /\ fn_out.some
    /\ fn_arg = <<168, 4, 126>>
    /\ TierDistance(4) = TierDistance(5)
    /\ fn_out.val = 4

(***************************************************************************)
(* Image preprocessing (yas/src/ocr/yas_model/preprocess.rs).  A gray      *)
(* image is its width, its height and its rows of pixels; a pixel is the   *)
(* numerator of a fraction over the image's den, so that the comparisons   *)
(* with the thresholds are exact.  px[j + 1][i + 1] is get_pixel(i, j).    *)
(***************************************************************************)
Img(w, h, den, px) == [w |-> w, h |-> h, den |-> den, px |-> px]

get_pixel(im, i, j) == im.px[j + 1][i + 1]

PixelValues(im) ==
    {get_pixel(im, i, j) : i \in 0..(im.w - 1), j \in 0..(im.h - 1)}

SetMax(S) == CHOOSE x \in S : \A y \in S : y <= x

SetMin(S) == CHOOSE x \in S : \A y \in S : x <= y

\* thresholds, as fractions
CROP_CONTENT_THRESHOLD == <<7, 10>>
BINARIZE_THRESHOLD == <<53, 100>>
BINARIZE_THRESHOLD_PENDING == <<50, 100>>

\* variant: an image of one value normalised like any other
Degenerate_Never(max, min) == FALSE

\* normalize: nothing to stretch when all pixels have one value
Degenerate(max, min) == max = min

\* variant: the polarity never changed
ShouldInvert_Never(auto_inverse, flag, span) == FALSE

\* normalize: the image is inverted when the normalised reference pixel
\* flag / span is at least 0.5
ShouldInvert(auto_inverse, flag, span) == auto_inverse /\ 2 * flag >= span

\* normalize: the flag it returns and the image it leaves; max starts at 0.0
\* and min at 256.0
normalize(im, auto_inverse) ==
    IF im.w = 0 \/ im.h = 0 THEN [ok |-> FALSE, im |-> im]
    ELSE LET max == SetMax(PixelValues(im) \cup {0})
             min == SetMin(PixelValues(im) \cup {256 * im.den})
         IN  IF Degenerate(max, min) THEN [ok |-> FALSE, im |-> im]
             ELSE LET flag_pixel == IF im.w >= 2
                                    THEN get_pixel(im, im.w - 2, im.h - 1)
                                    ELSE get_pixel(im, im.w - 1, im.h - 1)
                      span == max - min
                      inverse == ShouldInvert(auto_inverse, flag_pixel - min, span)
                  IN  [ok |-> TRUE,
                       im |-> Img(im.w, im.h, span,
                                  [j \in 1..im.h |->
                                      [i \in 1..im.w |->
                                          IF inverse THEN span - (im.px[j][i] - min)
                                          ELSE im.px[j][i] - min]])]

\* variant: a pixel at the threshold taken for content
IsContent_Inclusive(p, den) ==
    p * CROP_CONTENT_THRESHOLD[2] >= CROP_CONTENT_THRESHOLD[1] * den

\* crop: p > CROP_CONTENT_THRESHOLD
IsContent(p, den) ==
    p * CROP_CONTENT_THRESHOLD[2] > CROP_CONTENT_THRESHOLD[1] * den

\* crop: the view between the first and the last column and row holding a
\* content pixel, or the image itself when the scans find none
crop(im) ==
    LET cols == {i \in 0..(im.w - 1) :
                    \E j \in 0..(im.h - 1) : IsContent(get_pixel(im, i, j), im.den)}
        rows == {j \in 0..(im.h - 1) :
                    \E i \in 0..(im.w - 1) : IsContent(get_pixel(im, i, j), im.den)}
        min_col == SetMin(cols \cup {im.w - 1})
        max_col == SetMax(cols \cup {0})
        min_row == SetMin(rows \cup {im.h - 1})
        max_row == SetMax(rows \cup {0})
    IN  IF min_col > max_col \/ min_row > max_row THEN im
        ELSE LET new_height == max_row - min_row + 1
                 new_width == max_col - min_col + 1
             IN  Img(new_width, new_height, im.den,
                     [j \in 1..new_height |->
                         [i \in 1..new_width |->
                             get_pixel(im, min_col + i - 1, min_row + j - 1)]])

\* the canvas of the recognition model
CanvasWidth == 384
CanvasHeight == 32

\* resize_and_pad: the image resized to new_width x 32 with the triangle
\* filter and laid over a canvas of zeros at (0, 0); the canvas is kept as
\* the image it is sampled from and the width of the resized part
resize_and_pad(im) ==
    [w |-> CanvasWidth, h |-> CanvasHeight, src |-> im,
     new_width |-> (im.w * CanvasHeight) \div im.h, threshold |-> None]

\* binarize: every pixel compared with the threshold
binarize(canvas, threshold) == [canvas EXCEPT !.threshold = Some(threshold)]

\* pre_process and pre_process_pending_line, which differ in the threshold:
\* the image and the flag returned, and the functions run
PreProcess(im, threshold) ==
    LET first == normalize(im, TRUE)
    IN  IF ~first.ok THEN [im |-> first.im, ok |-> FALSE, ran |-> <<"normalize">>]
        ELSE LET cropped == crop(first.im)
                 second == normalize(cropped, FALSE)
                 padded == resize_and_pad(second.im)
             IN  [im |-> binarize(padded, threshold), ok |-> TRUE,
                  ran |-> <<"normalize", "crop", "normalize", "resize_and_pad",
                            "binarize">>]

pre_process(im) == PreProcess(im, BINARIZE_THRESHOLD)

pre_process_pending_line(im) == PreProcess(im, BINARIZE_THRESHOLD_PENDING)

\* the images of at most maxpix pixels with the given pixel values
ImagesOf(levels, den, maxpix) ==
    UNION {{Img(d[1], d[2], den, px) : px \in [1..d[2] -> [1..d[1] -> levels]]} :
              d \in {d \in (1..maxpix) \X (1..maxpix) : d[1] * d[2] <= maxpix}}

MaxPixels == 6
GrayDen == 4

\* gray images of four levels over den, and images without pixels
GrayImages(den) ==
    ImagesOf({0, 2, 3, 4}, den, MaxPixels)
        \cup {Img(0, 0, den, <<>>), Img(2, 0, den, <<>>),
              Img(0, 2, den, <<<<>>, <<>>>>)}

PreInit ==
    /\ NoSession
    /\ fn_arg \in [im : GrayImages(GrayDen), pending : BOOLEAN]
    /\ fn_out = NoCall

ApplyPreProcess ==
    /\ fn_out = NoCall
    /\ fn_out' = Some(IF fn_arg.pending THEN pre_process_pending_line(fn_arg.im)
                      ELSE pre_process(fn_arg.im))
    /\ UNCHANGED <<fn_arg, session_vars>>

PreSpec == PreInit /\ [][ApplyPreProcess]_vars

\* every pixel of the image has one value
Uniform(im) ==
    \A i1, i2 \in 1..im.w : \A j1, j2 \in 1..im.h : im.px[j1][i1] = im.px[j2][i2]

\* C24: for an image without pixels (zero width or height) or with one
\* pixel value, normalize returns false and leaves the image as it was, with
\* and without auto-inverse, and pre_process and pre_process_pending_line
\* return that image with the flag false, having run neither crop nor
\* resize nor binarize.
C24_BlankCapture ==
    (fn_out.some /\ (fn_arg.im.w = 0 \/ fn_arg.im.h = 0 \/ Uniform(fn_arg.im))) =>
        /\ \A auto_inverse \in BOOLEAN :
              normalize(fn_arg.im, auto_inverse) = [ok |-> FALSE, im |-> fn_arg.im]
        /\ fn_out.val.ok = FALSE
        /\ fn_out.val.im = fn_arg.im
        /\ \A k \in 1..Len(fn_out.val.ran) : fn_out.val.ran[k] = "normalize"

\* a 3 x 2 image of one gray value, preprocessed
C24_Witness ==
    /\ fn_out.some
    /\ fn_arg.im.w = 3 /\ fn_arg.im.h = 2
    /\ Uniform(fn_arg.im)
    /\ fn_arg.im.px[1][1] = 3
    /\ ~fn_out.val.ok

\* an image of zero width, preprocessed with the pending-line variant
C24_WitnessEmpty ==
    /\ fn_out.some
    /\ fn_arg.pending
    /\ fn_arg.im.w = 0 /\ fn_arg.im.h = 2
    /\ ~fn_out.val.ok

\* the complement of an image: light and dark exchanged
Complement(im) ==
    Img(im.w, im.h, im.den, [j \in 1..im.h |-> [i \in 1..im.w |-> im.den - im.px[j][i]]])

\* the reference pixel: second column from the right, bottom row
Reference(im) == im.px[im.h][im.w - 1]

\* the reference pixel lies on the background: it has the lightest or the
\* darkest value of an image that has both
OnBackground(im) ==
    /\ im.w >= 2 /\ im.h >= 1
    /\ ~Uniform(im)
    /\ \/ \A i \in 1..im.w : \A j \in 1..im.h : im.px[j][i] <= Reference(im)
       \/ \A i \in 1..im.w : \A j \in 1..im.h : im.px[j][i] >= Reference(im)

\* text on background without intermediate values
TwoTone(im) == Cardinality({im.px[j][i] : i \in 1..im.w, j \in 1..im.h}) = 2

\* the variant of the preprocessing that was applied, on another image
SameVariant(im) ==
    IF fn_arg.pending THEN pre_process_pending_line(im) ELSE pre_process(im)

\* C25: an image whose reference pixel lies on the background and its
\* complement are preprocessed to the same canvas; after normalize with
\* auto-inverse the reference pixel of any image is at most 0.5, it is 0
\* when it lies on the background, and the text pixels of a two-tone image
\* are 1 and its background pixels 0.
C25_AutoInverse ==
    fn_out.some =>
        LET im == fn_arg.im
            n == normalize(im, TRUE)
        IN  /\ (n.ok /\ im.w >= 2) => 2 * Reference(n.im) <= n.im.den
            /\ OnBackground(im) =>
                  /\ fn_out.val.ok
                  /\ fn_out.val = SameVariant(Complement(im))
                  /\ n.im = normalize(Complement(im), TRUE).im
                  /\ Reference(n.im) = 0
            /\ (OnBackground(im) /\ TwoTone(im)) =>
                  \A i \in 1..im.w : \A j \in 1..im.h :
                      n.im.px[j][i] = IF im.px[j][i] = Reference(im) THEN 0 ELSE n.im.den

\* dark text on a light background: the reference pixel has the lightest
\* value, one pixel the darkest, and the canvas is that of the complement
C25_Witness ==
    /\ fn_out.some
    /\ fn_arg.im.w = 3 /\ fn_arg.im.h = 2
    /\ OnBackground(fn_arg.im)
    /\ Reference(fn_arg.im) = 4
    /\ fn_arg.im.px[1][1] = 0
    /\ fn_arg.im.px[1][3] = 3
    /\ fn_out.val.ok
    /\ fn_out.val = SameVariant(Complement(fn_arg.im))

\* a reference pixel halfway between the darkest and the lightest value: the
\* image and its complement are both inverted and their canvases differ
C25_HalfwayReference ==
    /\ fn_out.some
    /\ fn_arg.im.w = 4 /\ fn_arg.im.h = 1
    /\ fn_arg.im.px[1] = <<0, 3, 2, 4>>
    /\ ~OnBackground(fn_arg.im)
    /\ fn_out.val # SameVariant(Complement(fn_arg.im))

(***************************************************************************)
(* crop on one image.                                                      *)
(***************************************************************************)
MaxCropPixels == 9

\* images whose pixels are at the content threshold (0.7) or above it (0.8)
CropImages(maxpix) == ImagesOf({7, 8}, 10, maxpix)

CropInit ==
    /\ NoSession
    /\ fn_arg \in CropImages(MaxCropPixels)
    /\ fn_out = NoCall

ApplyCrop ==
    /\ fn_out = NoCall
    /\ fn_out' = Some(crop(fn_arg))
    /\ UNCHANGED <<fn_arg, session_vars>>

CropSpec == CropInit /\ [][ApplyCrop]_vars

\* the places (column, row) of the pixels above 0.7
Content ==
    {c \in (1..fn_arg.w) \X (1..fn_arg.h) : 10 * fn_arg.px[c[2]][c[1]] > 7 * fn_arg.den}

ContentLeft == SetMin({c[1] : c \in Content})
ContentRight == SetMax({c[1] : c \in Content})
ContentTop == SetMin({c[2] : c \in Content})
ContentBottom == SetMax({c[2] : c \in Content})

\* C26: the image crop returns is the part of its argument between the
\* leftmost and the rightmost column and the topmost and the bottommost row
\* holding a pixel above 0.7, those columns and rows included, so that it
\* holds every such pixel; an argument without such a pixel is returned as
\* it is.
C26_Crop ==
    fn_out.some =>
        IF Content = {} THEN fn_out.val = fn_arg
        ELSE /\ fn_out.val.w = ContentRight - ContentLeft + 1
             /\ fn_out.val.h = ContentBottom - ContentTop + 1
             /\ fn_out.val.den = fn_arg.den
             /\ \A i \in 1..fn_out.val.w : \A j \in 1..fn_out.val.h :
                   fn_out.val.px[j][i] =
                       fn_arg.px[ContentTop + j - 1][ContentLeft + i - 1]
             /\ \A c \in Content :
                   /\ c[1] - ContentLeft + 1 \in 1..fn_out.val.w
                   /\ c[2] - ContentTop + 1 \in 1..fn_out.val.h

\* the only pixel above the threshold is in the middle of a 3 x 3 image whose
\* other pixels are at the threshold: the result is that pixel
C26_Witness ==
    /\ fn_out.some
    /\ fn_arg.w = 3 /\ fn_arg.h = 3
    /\ Content = {<<2, 2>>}
    /\ fn_out.val.w = 1 /\ fn_out.val.h = 1
    /\ fn_out.val.px = <<<<8>>>>

\* no pixel above the threshold: the image is returned as it is
C26_WitnessNoContent ==
    /\ fn_out.some
    /\ fn_arg.w = 3 /\ fn_arg.h = 3
    /\ Content = {}
    /\ fn_out.val = fn_arg

(***************************************************************************)
(* Window info: the calibration loaded into a repository and resolved at   *)
(* the size of the window (test_full_screen.rs, GenshinArtifactScanner::   *)
(* new).  A scaled component is the fraction <<numerator, denominator>>.   *)
(***************************************************************************)
Geometry(kind, c) == [kind |-> kind, c |-> c]

\* main: the value added for an entry of "data"; an entry that is neither
\* Rect, Pos, Size nor InvariantInt is skipped
ParseEntry(v) ==
    IF v.kind \in {"Rect", "Pos", "Size", "InvariantInt"} THEN Some(v) ELSE None

\* variant: width and height exchanged
BaseSize_Swapped(config) ==
    [width |-> config.current_resolution.height,
     height |-> config.current_resolution.width]

\* main: base_size is the configuration's current_resolution
BaseSize(config) ==
    [width |-> config.current_resolution.width,
     height |-> config.current_resolution.height]

\* main: repo.add for every parsed entry
LoadRepository(config) ==
    {[name |-> k, size |-> BaseSize(config), ui |-> "Desktop", platform |-> "Windows",
      value |-> config.data[k]] :
        k \in {k \in DOMAIN config.data : ParseEntry(config.data[k]).some}}

SameAspect(a, b) == a.width * b.height = a.height * b.width

\* a value at the target size: rectangles, points and sizes by the factor
\* target width / reference width, invariants as they are
ScaleValue(value, target, reference) ==
    IF value.kind \in {"Rect", "Pos", "Size"}
    THEN Geometry(value.kind,
                  [i \in DOMAIN value.c |-> <<value.c[i] * target.width, reference.width>>])
    ELSE value

\* resolve: the entries of the calibration of the target's aspect, scaled;
\* NotFound without such a calibration
from_window_info_repository(target, ui, platform, repo) ==
    LET found == {e \in repo : e.ui = ui /\ e.platform = platform
                                  /\ SameAspect(e.size, target)}
    IN  IF found = {} THEN [ok |-> FALSE]
        ELSE [ok |-> TRUE,
              val |-> [n \in {e.name : e \in found} |->
                          LET e == CHOOSE e \in found : e.name = n
                          IN  ScaleValue(e.value, target, e.size)]]

\* calibrations at 16 x 9 and at 4 x 3
ConfigData ==
    {[panel_rect |-> Geometry("Rect", r), star_pos |-> Geometry("Pos", <<7, 5>>),
      item_size |-> Geometry("Size", <<2, 3>>), col |-> Geometry("InvariantInt", <<n>>),
      blessed_frost_offset_y |-> Geometry("InvariantFloat", <<3>>)] :
        r \in {<<0, 0, 8, 4>>, <<3, 1, 5, 7>>}, n \in {2, 8}}

Configs ==
    {[current_resolution |-> s, data |-> d] :
        s \in {[width |-> 16, height |-> 9], [width |-> 4, height |-> 3]},
        d \in ConfigData}

\* one calibration, or two of different aspects
ConfigSets ==
    {{c} : c \in Configs}
        \cup {{c1, c2} : c1 \in {c \in Configs : c.current_resolution.width = 16},
                         c2 \in {c \in Configs : c.current_resolution.width = 4}}

TargetSizes ==
    {[width |-> 16, height |-> 9], [width |-> 32, height |-> 18],
     [width |-> 24, height |-> 18], [width |-> 8, height |-> 6],
     [width |-> 4, height |-> 3], [width |-> 2, height |-> 1],
     [width |-> 9, height |-> 16]}

ResolveInit ==
    /\ NoSession
    /\ fn_arg \in [configs : ConfigSets, target : TargetSizes]
    /\ fn_out = NoCall

ApplyResolve ==
    /\ fn_out = NoCall
    /\ fn_out' = Some(from_window_info_repository(
                          fn_arg.target, "Desktop", "Windows",
                          UNION {LoadRepository(c) : c \in fn_arg.configs}))
    /\ UNCHANGED <<fn_arg, session_vars>>

ResolveSpec == ResolveInit /\ [][ApplyResolve]_vars

\* the calibrations whose reference aspect is the target's
Matching ==
    {c \in fn_arg.configs :
        c.current_resolution.width * fn_arg.target.height
            = c.current_resolution.height * fn_arg.target.width}

C29_WitnessNotFound ==
    /\ fn_out.some
    /\ Matching = {}
    /\ ~fn_out.val.ok

(***************************************************************************)
(* get_page_locks_from_list_image on one list image                        *)
(* (artifact_scanner_worker.rs).  A list image is its width, its height    *)
(* and the colours of the pixels that differ from the background.          *)
(***************************************************************************)
LockPosX == 19
LockPosY == 93
LockColor == <<255, 138, 117>>
LockDistance == 30

\* the horizontal and the vertical pitch of the cells
LockPitchX == 100
LockPitchY == 100

Background == <<0, 0, 0>>

\* image.get_pixel inside the image
ListPixel(list_image, x, y) ==
    IF <<x, y>> \in DOMAIN list_image.px THEN list_image.px[<<x, y>>] ELSE Background

\* yas::utils::color_distance
lock_color_distance(c1, c2) ==
    (c1[1] - c2[1]) * (c1[1] - c2[1]) + (c1[2] - c2[2]) * (c1[2] - c2[2])
        + (c1[3] - c2[3]) * (c1[3] - c2[3])

\* variant: the window one pixel to the right as well
SearchDx_Symmetric == <<-1, 0, 1>>

\* the ranges -1..1 and -10..10 of the search loops
SearchDx == <<-1, 0>>
SearchDy == [k \in 1..20 |-> k - 11]

\* the search loops of one cell from the i-th column and the k-th row of the
\* window on: "locked" at the first pixel near the lock colour, "unlocked"
\* when the loops end, "panic" when get_pixel is called beyond the width;
\* rows outside the height are skipped
RECURSIVE CellSearch(_, _, _, _, _)
CellSearch(list_image, pos_x, pos_y, i, k) ==
    IF i > Len(SearchDx) THEN "unlocked"
    ELSE IF k > Len(SearchDy) THEN CellSearch(list_image, pos_x, pos_y, i + 1, 1)
    ELSE LET x == pos_x + SearchDx[i]
             y == pos_y + SearchDy[k]
         IN  IF y < 0 \/ y >= list_image.height
             THEN CellSearch(list_image, pos_x, pos_y, i, k + 1)
             ELSE IF x >= list_image.width THEN "panic"
             ELSE IF lock_color_distance(ListPixel(list_image, x, y), LockColor)
                        < LockDistance
             THEN "locked"
             ELSE CellSearch(list_image, pos_x, pos_y, i, k + 1)

\* the loops over the rows and the columns from cell (r, c) on, result
\* holding the states pushed so far
RECURSIVE LockLoop(_, _, _, _, _, _)
LockLoop(list_image, row, col, r, c, result) ==
    IF r >= row \/ (c = 0 /\ LockPitchY * r > list_image.height)
    THEN [panic |-> FALSE, val |-> result]
    ELSE IF c >= col THEN LockLoop(list_image, row, col, r + 1, 0, result)
    ELSE LET locked == CellSearch(list_image, LockPitchX * c + LockPosX,
                                  LockPitchY * r + LockPosY, 1, 1)
         IN  IF locked = "panic" THEN [panic |-> TRUE]
             ELSE LockLoop(list_image, row, col, r, c + 1, Append(result, locked = "locked"))

get_page_locks_from_list_image(list_image, row, col) ==
    LockLoop(list_image, row, col, 0, 0, <<>>)

\* pixels in and next to the search window of a cell: its first and its
\* last corner, and the pixels right of it, below it and above it
ProbeOffsets == {<<-1, -10>>, <<0, 9>>, <<1, 0>>, <<0, 10>>, <<-1, -11>>}

ProbePixels ==
    {<<LockPitchX * c + LockPosX + o[1], LockPitchY * r + LockPosY + o[2]>> :
        r \in 0..(Row - 1), c \in 0..(Col - 1), o \in ProbeOffsets}

\* a colour within the distance of the lock colour, and one at the distance
ProbeColours == {<<250, 140, 117>>, <<250, 140, 118>>}

MaxLit == 2

\* the widths and heights of the list images: as wide as the window, or cut
\* in the last column of cells
ListSizes ==
    {[width |-> 150, height |-> h] : h \in {0, 84, 99, 100, 184, 250}}
        \cup {[width |-> w, height |-> h] : w \in {118, 119}, h \in {84, 250}}

ListImages(maxlit) ==
    {[width |-> s.width, height |-> s.height, px |-> px] :
        s \in ListSizes,
        px \in UNION {[lit -> ProbeColours] :
                         lit \in {l \in SUBSET ProbePixels : Cardinality(l) <= maxlit}}}

LocksInit ==
    /\ NoSession
    /\ fn_arg \in ListImages(MaxLit)
    /\ fn_out = NoCall

ApplyPageLocks ==
    /\ fn_out = NoCall
    /\ fn_out' = Some(get_page_locks_from_list_image(fn_arg, Row, Col))
    /\ UNCHANGED <<fn_arg, session_vars>>

LocksSpec == LocksInit /\ [][ApplyPageLocks]_vars

\* the pixels of the image in the search window of cell (r, c) whose colour
\* is within the distance of the lock colour
LockPixels(r, c) ==
    {p \in DOMAIN fn_arg.px :
        /\ p[1] \in 0..(fn_arg.width - 1)
        /\ p[2] \in 0..(fn_arg.height - 1)
        /\ p[1] - (LockPitchX * c + 19) \in {-1, 0}
        /\ p[2] - (LockPitchY * r + 93) \in -10..9
        /\ (fn_arg.px[p][1] - 255) ^ 2 + (fn_arg.px[p][2] - 138) ^ 2
               + (fn_arg.px[p][3] - 117) ^ 2 < 30}

C28_WitnessRowBelowImage ==
    /\ fn_out.some
    /\ ~fn_out.val.panic
    /\ fn_arg.height = LockPitchY
    /\ Len(fn_out.val.val) = Row * Col

\* an image cut inside the window of the last column: the search reads a
\* pixel beyond the width and the function does not return
C28_NarrowImagePanics ==
    /\ fn_out.some
    /\ fn_arg.width = 119
    /\ fn_out.val.panic

(***************************************************************************)
(* The driver step by step: every operation send() performs between two    *)
(* resumptions of the traversal is a step of its own and is written to a   *)
(* log, while the worker thread runs as in a session.                      *)
(***************************************************************************)
\* the largest item count of the sessions followed step by step
MaxStepCount == 3

\* one operation of the driver at checkpoint k (the k-th resumption)
Op(name, k) == [op |-> name, k |-> k]

\* the driver's log with one more operation
Logged(name, k) == Append(fn_out, Op(name, k))

StepInit ==
    /\ screens = {ItemA, ItemE}
    /\ lock_patterns = LockPatterns
    /\ window_height = WindowHeight
    /\ count \in 0..MaxStepCount
    /\ lock_list \in LockLists
    /\ ignore_dup \in BOOLEAN
    /\ fn_arg = None
    /\ fn_out = <<>>
    /\ SessionStart

\* pinned_generator.resume(()) yields: the traversal has performed its UI
\* actions for the next checkpoint and is suspended
StepResume ==
    /\ d_pc = "resume"
    /\ GeneratorYields(cursor, count)
    /\ cursor' = cursor + 1
    /\ fn_out' = Logged("resume", cursor + 1)
    /\ d_pc' = "capture_panel"
    /\ UNCHANGED <<traversal, d_index, ret, lock_clicks, sampled, pushed, received,
                   sentinels, chan, result_chan, fn_arg>>
    /\ UNCHANGED <<screens, lock_patterns, window_height, count, lock_list, ignore_dup>>
    /\ UNCHANGED worker_vars

\* let image = self.capture_panel().unwrap()
StepCapturePanel ==
    /\ d_pc = "capture_panel"
    /\ \E screen \in screens :
          fn_arg' = [screen |-> screen, image |-> screen.panel,
                     star |-> None, list_image |-> None]
    /\ fn_out' = Logged("capture_panel", cursor)
    /\ d_pc' = "get_star"
    /\ UNCHANGED <<cursor, traversal, d_index, ret, lock_clicks, sampled, pushed,
                   received, sentinels, chan, result_chan>>
    /\ UNCHANGED <<screens, lock_patterns, window_height, count, lock_list, ignore_dup>>
    /\ UNCHANGED worker_vars

\* let star = self.get_star().unwrap(): the traversal is suspended, the
\* screen is the one the panel was captured from
StepGetStar ==
    /\ d_pc = "get_star"
    /\ fn_arg' = [fn_arg EXCEPT !.star = Some(fn_arg.screen.star)]
    /\ sampled' = Append(sampled, fn_arg.screen.star)
    /\ fn_out' = Logged("get_star", cursor)
    /\ d_pc' = "list_image"
    /\ UNCHANGED <<cursor, traversal, d_index, ret, lock_clicks, pushed, received,
                   sentinels, chan, result_chan>>
    /\ UNCHANGED <<screens, lock_patterns, window_height, count, lock_list, ignore_dup>>
    /\ UNCHANGED worker_vars

\* the list image is captured for the first item of a page; then the item
\* is counted and the rarity floor applied
StepListImage ==
    /\ d_pc = "list_image"
    /\ \E locked \in lock_patterns :
          /\ ~is_page_first_artifact(d_index) => locked = {}
          /\ fn_arg' = [fn_arg EXCEPT !.list_image =
                           IF is_page_first_artifact(d_index)
                           THEN Some(CaptureListImage(window_height, count, d_index,
                                                      locked))
                           ELSE None]
    /\ fn_out' = IF is_page_first_artifact(d_index)
                 THEN Logged("capture_list", cursor)
                 ELSE fn_out
    /\ d_index' = d_index + 1
    /\ d_pc' = IF BelowFloor(fn_arg.star.val) THEN AfterBreak ELSE "send"
    /\ UNCHANGED <<cursor, traversal, ret, lock_clicks, sampled, pushed, received,
                   sentinels, chan, result_chan>>
    /\ UNCHANGED <<screens, lock_patterns, window_height, count, lock_list, ignore_dup>>
    /\ UNCHANGED worker_vars

\* tx.send(Some(SendItem { .. })): a failed push breaks the loop
StepPush ==
    /\ d_pc = "send"
    /\ LET item == [panel_image |-> fn_arg.image, star |-> fn_arg.star.val,
                    list_image |-> fn_arg.list_image]
       IN  IF ~SendOk
           THEN /\ d_pc' = AfterBreak
                /\ UNCHANGED <<chan, pushed, fn_out>>
           ELSE /\ chan' = Append(chan, Some(item))
                /\ pushed' = Append(pushed, item)
                /\ fn_out' = Logged("push", cursor)
                /\ d_pc' = AfterPush(Feedback)
    /\ UNCHANGED <<cursor, traversal, d_index, ret, lock_clicks, sampled, received,
                   sentinels, result_chan, fn_arg>>
    /\ UNCHANGED <<screens, lock_patterns, window_height, count, lock_list, ignore_dup>>
    /\ UNCHANGED worker_vars

\* variant: the click made before the pointer is on the lock control
LockSteps_ClickFirst == <<"mouse_click", "mouse_move_to", "move_to">>

\* try_lock_artifact: move to the lock control, click, move back to (0, 0)
LockSteps == <<"mouse_move_to", "mouse_click", "move_to">>

\* rx.recv() after the push: the wait for the result of this item; the lock
\* action is entered for a record the list contains that is not shown locked
StepRecv ==
    /\ d_pc = "recv"
    /\ result_chan # <<>> \/ ~result_tx_alive
    /\ LET got == IF result_chan # <<>>
                  THEN [ok |-> TRUE, val |-> Head(result_chan)]
                  ELSE [ok |-> FALSE]
           lock == got.ok /\ got.val.some /\ ShouldLock(lock_list.val, got.val.val)
       IN  /\ result_chan' = IF result_chan # <<>> THEN Tail(result_chan)
                             ELSE result_chan
           /\ received' = Append(received, got)
           /\ lock_clicks' = IF lock THEN Append(lock_clicks, d_index) ELSE lock_clicks
           /\ d_pc' = IF lock THEN LockSteps[1] ELSE "resume"
    /\ fn_out' = Logged("recv", cursor)
    /\ UNCHANGED <<cursor, traversal, d_index, ret, sampled, pushed, sentinels, chan,
                   fn_arg>>
    /\ UNCHANGED <<screens, lock_patterns, window_height, count, lock_list, ignore_dup>>
    /\ UNCHANGED worker_vars

\* one call of try_lock_artifact: mouse_move_to(..)? and mouse_click()?
\* return the error of the system control, which send() logs before it
\* goes on; move_to(0, 0) ends the lock action
StepLock ==
    /\ \E i \in 1..Len(LockSteps) :
          /\ d_pc = LockSteps[i]
          /\ fn_out' = Logged(LockSteps[i], cursor)
          /\ \E ok \in BOOLEAN :
                /\ LockSteps[i] = "move_to" => ok
                /\ d_pc' = IF ok /\ i < Len(LockSteps) THEN LockSteps[i + 1]
                           ELSE "resume"
    /\ UNCHANGED <<cursor, traversal, d_index, ret, lock_clicks, sampled, pushed,
                   received, sentinels, chan, result_chan, fn_arg>>
    /\ UNCHANGED <<screens, lock_patterns, window_height, count, lock_list, ignore_dup>>
    /\ UNCHANGED worker_vars

StepNext ==
    \/ StepResume
    \/ StepCapturePanel
    \/ StepGetStar
    \/ StepListImage
    \/ StepPush
    \/ StepRecv
    \/ StepLock
    \/ DriverComplete
    \/ DriverSentinel
    \/ DriverJoin
    \/ WorkerTakeSentinel
    \/ WorkerTakeItem
    \/ WorkerRules
    \/ WorkerExit

StepSpec == StepInit /\ [][StepNext]_vars

\* the order the claim gives to the operations of one checkpoint
OpOrder ==
    <<"resume", "capture_panel", "get_star", "capture_list", "push", "recv",
      "mouse_move_to", "mouse_click", "move_to">>

OpRank(name) == CHOOSE r \in 1..Len(OpOrder) : OpOrder[r] = name

\* the driver has performed the operation at checkpoint k
Did(name, k) == \E i \in 1..Len(fn_out) : fn_out[i] = Op(name, k)

\* C31: the operations of the driver are logged checkpoint by checkpoint,
\* every operation of checkpoint k before the resumption that lets the
\* traversal act for checkpoint k + 1; within a checkpoint they come in the
\* order resumption, panel capture, rarity sampling, list capture (exactly
\* for the first item of a page), push, wait for the result (exactly with
\* feedback), move to the lock control, click, move back to (0, 0), each
\* only after the one it depends on (a lock action is cut short only by an
\* error of the system control); and the traversal is resumed for the next
\* checkpoint only after the push, with feedback the wait, and the lock
\* action that was called for.
C31_LockStep ==
    /\ \A i, j \in 1..Len(fn_out) :
          i < j =>
             /\ fn_out[i].k <= fn_out[j].k
             /\ fn_out[i].k = fn_out[j].k =>
                   OpRank(fn_out[i].op) < OpRank(fn_out[j].op)
    /\ \A i \in 1..Len(fn_out) : fn_out[i].k \in 1..cursor
    /\ \A k \in 1..cursor :
          /\ Did("resume", k)
          /\ Did("get_star", k) => Did("capture_panel", k)
          /\ Did("capture_list", k) =>
                Did("get_star", k) /\ is_page_first_artifact(k - 1)
          /\ Did("push", k) =>
                /\ Did("get_star", k)
                /\ is_page_first_artifact(k - 1) => Did("capture_list", k)
          /\ Did("recv", k) => Did("push", k) /\ Feedback
          /\ Did("mouse_move_to", k) => Did("recv", k)
          /\ Did("mouse_move_to", k) => k \in Range(lock_clicks)
          /\ k \in Range(lock_clicks) => Did("recv", k)
          /\ Did("mouse_click", k) => Did("mouse_move_to", k)
          /\ Did("move_to", k) => Did("mouse_click", k)
          /\ Did("resume", k + 1) =>
                /\ Did("push", k)
                /\ Feedback => Did("recv", k)
                /\ k \in Range(lock_clicks) => Did("mouse_move_to", k)

\* C31 witness: with feedback, the first checkpoint went through every
\* operation up to the move back to (0, 0) before the traversal was resumed
\* for the second, whose item was pushed without a list capture
C31_Witness ==
    /\ Feedback
    /\ \A r \in 1..Len(OpOrder) : Did(OpOrder[r], 1)
    /\ Did("push", 2)
    /\ ~Did("capture_list", 2)
    /\ d_pc = "done"

\* C31 witness: without feedback the driver is back at the resumption right
\* after the push
C31_WitnessNoFeedback ==
    /\ ~Feedback
    /\ Did("push", 1)
    /\ Did("push", 2)
    /\ ~Did("recv", 1)

(***************************************************************************)
(* Sessions in which the driver thread can be lost: a capture that fails   *)
(* makes send() panic on its unwrap, scan() unwinds and the item sender is *)
(* dropped with it.                                                        *)
(***************************************************************************)
StopInit == Init /\ count <= MaxStepCount

\* self.capture_panel().unwrap() or self.get_star().unwrap() on an Err:
\* the driver thread unwinds out of send() and scan(), dropping tx and
\* result_rx; nothing is pushed for this checkpoint and no sentinel is sent
DriverUnwind ==
    /\ d_pc = "resume"
    /\ GeneratorYields(cursor, count)
    /\ cursor' = cursor + 1
    /\ d_pc' = "gone"
    /\ UNCHANGED <<traversal, d_index, ret, lock_clicks, sampled, pushed, received,
                   sentinels, chan, result_chan>>
    /\ UNCHANGED worker_vars
    /\ UNCHANGED config_vars

\* variant: the iteration ends as soon as the sender is gone, with the
\* queued items unread
IterEnds_Unread(q, sender_gone) == sender_gone

\* rx.into_iter(): next() returns None once the channel is empty and the
\* sender has been dropped
IterEnds(q, sender_gone) == q = <<>> /\ sender_gone

\* the for loop over rx ends: the thread goes on to return its results
WorkerChannelClosed ==
    /\ w_pc = "recv"
    /\ IterEnds(chan, d_pc = "gone")
    /\ WorkerBreak
    /\ UNCHANGED <<chan, result_chan, result_tx_alive, w_index, w_result, locks, hash,
                   results, consecutive_dup_count, panicked, consumed, published,
                   results_src>>
    /\ UNCHANGED driver_vars
    /\ UNCHANGED config_vars

StopNext == Next \/ DriverUnwind \/ WorkerChannelClosed

StopSpec == StopInit /\ [][StopNext]_vars

\* the worker takes a step
WorkerStep == worker_vars' # worker_vars

\* the four occasions of the claim, for the step the worker takes
TakesSentinel == w_pc = "recv" /\ chan # <<>> /\ ~Head(chan).some

FindsClosed == w_pc = "recv" /\ chan = <<>> /\ d_pc = "gone"

FindsLowLevel == w_pc = "rules" /\ w_result.val.level < MinLevel

ReachesDupThreshold ==
    /\ w_pc = "rules"
    /\ w_result.val.level >= MinLevel
    /\ ~ignore_dup
    /\ consecutive_dup_count' >= Col

StopOccasion ==
    TakesSentinel \/ FindsClosed \/ FindsLowLevel \/ ReachesDupThreshold

C32_WitnessDuplicates ==
    /\ w_pc = "done"
    /\ ~ignore_dup
    /\ consecutive_dup_count = Col
    /\ sentinels = 0

\* the driver takes the step of a checkpoint: the traversal yielded
CheckpointStep == cursor' = cursor + 1

\* the driver has left its loop
LoopLeft == d_pc \in {"sentinel", "join", "done"}

\* C33: once the worker has released the item channel nothing more is
\* pushed; the checkpoint the driver then takes ends its loop, without a
\* wait for a result and without a lock action; after the loop the
\* traversal is resumed no further and no lock action is taken; and with
\* feedback at most one pushed item is left unconsumed, at any time and
\* when scan() has returned.
C33_EarlyStopReaction ==
    /\ [][~rx_alive => pushed' = pushed /\ Len(chan') <= Len(chan)]_vars
    /\ [][(~rx_alive /\ CheckpointStep) =>
            /\ d_pc' = "sentinel"
            /\ lock_clicks' = lock_clicks
            /\ received' = received]_vars
    /\ [][LoopLeft =>
            /\ cursor' = cursor
            /\ traversal' = traversal
            /\ lock_clicks' = lock_clicks
            /\ LoopLeft']_vars
    /\ [](Feedback => Len(pushed) - Len(consumed) <= 1)
    /\ []((Feedback /\ LoopLeft /\ Len(pushed) > Len(consumed)) =>
            /\ ~rx_alive
            /\ Len(received) = Len(pushed)
            /\ ~received[Len(pushed)].ok
            /\ Len(pushed) \notin Range(lock_clicks))

\* C33 witness: with feedback, the worker stopped on an item below the
\* level floor while the next item was already pushed; that item stayed
\* unconsumed, the following push failed short of the count and scan()
\* returned
C33_Witness ==
    /\ Feedback
    /\ d_pc = "done"
    /\ LoopExit = "FailedPush"
    /\ Len(pushed) = Len(consumed) + 1
    /\ LowAt(Len(consumed))
    /\ cursor < count
    /\ Len(sampled) = Len(pushed) + 1

(***************************************************************************)
(* The lock lookup over grids of every shape: the driver's list images and *)
(* the worker's lock vector, item by item.  Lengths are in half units, so  *)
(* that the casts of the f64 products to integers truncate.                *)
(***************************************************************************)
MaxGridRows == 3
MaxGridCols == 2
MaxPitch2 == 5
MaxShown2 == 12
MaxItems == 8

\* row and col of the window info, gap.height + size.height (pitch2), the
\* window height less margin.y (shown2) and the count of the session
Grids ==
    [row : 1..MaxGridRows, col : 1..MaxGridCols, pitch2 : 1..MaxPitch2,
     shown2 : 0..MaxShown2, count : 0..MaxItems]

\* height of the list image captured for the page-first item cur_index:
\* (origin.height - margin.y - pitch * get_start_row(count, cur_index)) as i32
ListHeight(g, cur_index) ==
    DivTrunc(g.shown2 - g.pitch2 * StartRow(g.row, g.col, g.count, cur_index), 2)

\* variant: the row loop breaks at a row that starts on the last line
RowsDetected_Inclusive(row, pitch2, height) ==
    Cardinality({r \in 0..(row - 1) :
                    \A q \in 0..r : ~(DivTrunc(pitch2 * q, 2) >= height)})

\* rows the detection loop visits: it breaks at the first r with
\* ((gap.height + size.height) * r) as u32 > list_image.height()
RowsDetected(row, pitch2, height) ==
    Cardinality({r \in 0..(row - 1) :
                    \A q \in 0..r : ~(DivTrunc(pitch2 * q, 2) > height)})

\* length of the lock vector once the worker has taken the item the driver
\* pushed at cur_index: a page-first item carries a list image
LocksAfter(g, len, cur_index) ==
    IF cur_index % (g.col * g.row) = 0
    THEN len + g.col * RowsDetected(g.row, g.pitch2, ListHeight(g, cur_index))
    ELSE len

\* the capture of a list image needs a height that is not negative
Capturable(g, cur_index) ==
    cur_index % (g.col * g.row) = 0 => ListHeight(g, cur_index) >= 0

LookupInit ==
    /\ NoSession
    /\ fn_arg \in Grids
    /\ fn_out = [index |-> 0, locks |-> 0, panicked |-> FALSE]

\* the worker takes the next item and finds its lock state
LookupItem ==
    /\ ~fn_out.panicked
    /\ fn_out.index < fn_arg.count
    /\ Capturable(fn_arg, fn_out.index)
    /\ LET len == LocksAfter(fn_arg, fn_out.locks, fn_out.index)
       IN  /\ fn_out.index + 1 <= len
           /\ fn_out' = [index |-> fn_out.index + 1, locks |-> len, panicked |-> FALSE]
    /\ UNCHANGED <<fn_arg, session_vars>>

\* the worker takes the next item and the index is beyond the lock vector
LookupPanic ==
    /\ ~fn_out.panicked
    /\ fn_out.index < fn_arg.count
    /\ Capturable(fn_arg, fn_out.index)
    /\ LET len == LocksAfter(fn_arg, fn_out.locks, fn_out.index)
       IN  /\ fn_out.index + 1 > len
           /\ fn_out' = [index |-> fn_out.index + 1, locks |-> len, panicked |-> TRUE]
    /\ UNCHANGED <<fn_arg, session_vars>>

LookupNext == LookupItem \/ LookupPanic

LookupSpec == LookupInit /\ [][LookupNext]_vars

\* the window shows the grid: the last row of cells starts inside it
GridFits(g) == g.shown2 >= g.pitch2 * (g.row - 1)

C34_WitnessLowWindow ==
    /\ ~GridFits(fn_arg)
    /\ fn_out.panicked

\* the records of the processed items that went through the dedup rules:
\* recognised, and not below the level floor
Counted ==
    LET done == Processed
        seen == [i \in 1..Len(done) |-> Recognised(done[i])]
        ok(r) == r.ok /\ ~StopOnLevel(r.val)
        kept == SelectSeq(seen, ok)
    IN  [i \in 1..Len(kept) |-> kept[i].val]

\* the i-th record equals an earlier one
IsRepeat(recs, i) == \E j \in 1..(i - 1) : ResultEq(recs[j], recs[i])

\* the number of records at the end of the sequence that are all repeats
TrailingRepeats(recs) ==
    Cardinality({k \in 1..Len(recs) : \A i \in k..Len(recs) : IsRepeat(recs, i)})

\* C35: the step in which the worker takes an item it fails to recognise
\* changes neither the accepted set, nor the output list, nor the duplicate
\* counter, and counts the item in the worker's index; the index is always
\* the number of items taken, so every output record carries the lock state
\* found at the index of its own item; and the counter is the number of
\* repeats at the end of the recognised items, the failed ones left out.
C35_FailedItemFrame ==
    /\ [][FailedItemStep =>
            /\ hash' = hash
            /\ results' = results
            /\ consecutive_dup_count' = consecutive_dup_count
            /\ w_index' = w_index + 1
            /\ w_index' <= Len(locks')]_vars
    /\ [](~panicked =>
            /\ w_index = Len(consumed)
            /\ \A j \in 1..Len(results) :
                  results[j].lock = locks[results_src[j]]
            /\ consecutive_dup_count = TrailingRepeats(Counted))

\* C35 witness: the second item repeated the first, the third failed, and
\* the fourth, again a repeat, brought the counter to the threshold of two
\* and stopped the worker
C35_Witness ==
    /\ ~ignore_dup
    /\ Len(consumed) = 4
    /\ Accepted(consumed[1]) /\ Accepted(consumed[2]) /\ Accepted(consumed[4])
    /\ ~Accepted(consumed[3])
    /\ results_src = <<1>>
    /\ consecutive_dup_count = Col
    /\ w_index = 4
    /\ ~rx_alive

\* C36: at every point of a session the output list holds no two records
\* that are equal under the record equality, it is as long as the accepted
\* set is large, the set's members are exactly the list's records, and
\* without the override the duplicate counter is at most the number of
\* columns; the set and the list only ever grow, together and by one
\* record.
C36_OutputInvariant ==
    /\ [](/\ \A i, j \in 1..Len(results) :
                ResultEq(results[i], results[j]) => i = j
          /\ Len(results) = Cardinality(hash)
          /\ hash = Range(results)
          /\ ~ignore_dup => consecutive_dup_count <= Col
          /\ consecutive_dup_count >= 0)
    /\ [][(hash' # hash \/ results' # results) =>
            \E r \in hash' :
               /\ ~HashContains(hash, r)
               /\ hash' = hash \cup {r}
               /\ results' = Append(results, r)]_vars

\* C36 witness: four items were consumed, the last two repeating the first
\* two; the list holds two records, the set has two members and the counter
\* stands at the number of columns
C36_Witness ==
    /\ ~ignore_dup
    /\ Len(consumed) = 4
    /\ Len(results) = 2
    /\ Cardinality(hash) = 2
    /\ consecutive_dup_count = Col
    /\ ~rx_alive

\* C36 second witness: with the override the counter goes beyond the
\* number of columns
C36_WitnessOverride ==
    /\ ignore_dup
    /\ consecutive_dup_count > Col

(***************************************************************************)
(* The pixels of the canvas pre_process returns.  A resized pixel is a     *)
(* fraction <<numerator, denominator>>.                                    *)
(***************************************************************************)
RECURSIVE SeqSum(_)
SeqSum(s) == IF s = <<>> THEN 0 ELSE Head(s) + SeqSum(Tail(s))

\* imageops::resize, one axis: the weight the triangle filter gives source
\* pixel i for output pixel out when old pixels are sampled to new, in
\* units of 1 / (2 * max(old, new)); the centre of the output pixel lies at
\* (out + 0.5) * old / new and the kernel is 1 - |x| stretched by old / new
\* when that is more than 1
TriangleWeight(old, new, out, i) ==
    LET d == 2 * new * i - ((2 * out + 1) * old - new)
        full == 2 * (IF old > new THEN old ELSE new)
    IN  IF d < 0
        THEN (IF -d < full THEN full + d ELSE 0)
        ELSE (IF d < full THEN full - d ELSE 0)

\* imageops::resize(im, new_width, new_height, Triangle): pixel (x, y), the
\* weights of each axis divided by their sum
resize_pixel(im, new_width, new_height, x, y) ==
    LET wx == [i \in 1..im.w |-> TriangleWeight(im.w, new_width, x, i - 1)]
        wy == [j \in 1..im.h |-> TriangleWeight(im.h, new_height, y, j - 1)]
        col == [i \in 1..im.w |-> wx[i] * SeqSum([j \in 1..im.h |-> wy[j] * im.px[j][i]])]
    IN  <<SeqSum(col), SeqSum(wx) * SeqSum(wy) * im.den>>

\* pixel (x, y) of the canvas resize_and_pad returns: the resized image
\* where the overlay at (0, 0) covers the canvas, 0.0 elsewhere
padded_pixel(canvas, x, y) ==
    IF x < canvas.new_width
    THEN resize_pixel(canvas.src, canvas.new_width, canvas.h, x, y)
    ELSE <<0, 1>>

\* variant: a pixel at the threshold becomes 0
AtLeast_Strict(p, threshold) == p[1] * threshold[2] > threshold[1] * p[2]

\* binarize: p[0] >= threshold
AtLeast(p, threshold) == p[1] * threshold[2] >= threshold[1] * p[2]

\* pixel (x, y) of the canvas after binarize
canvas_pixel(canvas, x, y) ==
    IF AtLeast(padded_pixel(canvas, x, y), canvas.threshold.val) THEN 1 ELSE 0

\* images wider than the canvas once resized, and images whose cropped
\* region is too tall for a resized width of one pixel
LongImages(den) ==
    LET wide == CanvasWidth \div CanvasHeight + 1
        tall == CanvasHeight + 2
    IN  {Img(wide, 1, den, <<[i \in 1..wide |-> IF i \in {1, m, wide} THEN den ELSE v]>>) :
            m \in 2..4, v \in {0, 2}}
          \cup {Img(1, tall, den, [j \in 1..tall |-> <<IF j \in {1, m, tall - 1} THEN den ELSE 0>>]) :
                   m \in 1..3}

MaxCanvasPixels == 5

\* gray images of four levels, images without pixels and long images
CanvasImages(den) ==
    ImagesOf({0, 2, 3, 4}, den, MaxCanvasPixels)
        \cup {Img(0, 0, den, <<>>), Img(2, 0, den, <<>>),
              Img(0, 2, den, <<<<>>, <<>>>>)}
        \cup LongImages(den)

CanvasInit ==
    /\ NoSession
    /\ fn_arg \in [im : CanvasImages(GrayDen), pending : BOOLEAN]
    /\ fn_out = NoCall

CanvasSpec == CanvasInit /\ [][ApplyPreProcess]_vars

\* the columns and rows of the canvas at which its pixels are examined:
\* the first and the last column of the canvas, both sides of the edge of
\* the resized image and a column inside it, in the outer rows and a middle
\* row
ProbeColumns(canvas) ==
    {x \in {0, canvas.new_width \div 3, canvas.new_width - 1, canvas.new_width,
            CanvasWidth - 1} :
        x >= 0 /\ x < CanvasWidth}

ProbeRows == {0, CanvasHeight \div 2, CanvasHeight - 1}

\* the threshold of the variant that was called
VariantThreshold == IF fn_arg.pending THEN <<50, 100>> ELSE <<53, 100>>

\* C37: both variants return the flag true exactly for an image with a
\* width and a height other than 0 and at least two pixel values, whether
\* the second normalize succeeds on the cropped region or not; with the
\* flag true the canvas is 384 wide and 32 high, every pixel examined is 0
\* or 1, and it is 1 exactly when it lies in the resized image and its
\* resized value is at least 0.53 (pre_process) or 0.50 (pending line).
C37_PreprocessOutput ==
    fn_out.some =>
        LET im == fn_arg.im
            out == fn_out.val
        IN  /\ out.ok <=> (im.w # 0 /\ im.h # 0 /\ Cardinality(PixelValues(im)) >= 2)
            /\ out.ok =>
                  /\ out.im.w = 384 /\ out.im.h = 32
                  /\ out.im.new_width = (out.im.src.w * 32) \div out.im.src.h
                  /\ \A x \in ProbeColumns(out.im) : \A y \in ProbeRows :
                        LET v == canvas_pixel(out.im, x, y)
                            p == IF x < out.im.new_width
                                 THEN resize_pixel(out.im.src, out.im.new_width, 32, x, y)
                                 ELSE <<0, 1>>
                        IN  /\ v \in {0, 1}
                            /\ v = 1 <=> p[1] * VariantThreshold[2]
                                            >= VariantThreshold[1] * p[2]
                            /\ p[2] > 0 /\ p[1] >= 0 /\ p[1] <= p[2]

\* the second normalize failed on the cropped region of the image
SecondFails(im) ==
    /\ normalize(im, TRUE).ok
    /\ ~normalize(crop(normalize(im, TRUE).im), FALSE).ok

\* C37 witness: a row of five pixels with two of value 0.5 side by side is
\* resized to 160 columns; where only those two are sampled the resized
\* value is 0.5, which the pending-line variant turns into 1
C37_Witness ==
    /\ fn_out.some
    /\ fn_arg.pending
    /\ fn_arg.im.w = 5 /\ fn_arg.im.h = 1
    /\ fn_arg.im.px[1] = <<4, 2, 2, 0, 4>>
    /\ fn_out.val.ok
    /\ fn_out.val.im.new_width = 160
    /\ resize_pixel(fn_out.val.im.src, 160, 32, 53, 0)[1] * 2
          = resize_pixel(fn_out.val.im.src, 160, 32, 53, 0)[2]
    /\ canvas_pixel(fn_out.val.im, 53, 0) = 1
    /\ canvas_pixel(fn_out.val.im, 159, 0) = 1
    /\ canvas_pixel(fn_out.val.im, 160, 0) = 0

\* the same image under pre_process: the pixel of value 0.5 becomes 0
C37_WitnessOrdinary ==
    /\ fn_out.some
    /\ ~fn_arg.pending
    /\ fn_arg.im.w = 5 /\ fn_arg.im.h = 1
    /\ fn_arg.im.px[1] = <<4, 2, 2, 0, 4>>
    /\ fn_out.val.ok
    /\ canvas_pixel(fn_out.val.im, 53, 0) = 0

\* the cropped region has one pixel value, the second normalize fails and
\* the flag is true
C37_WitnessSecondFails ==
    /\ fn_out.some
    /\ SecondFails(fn_arg.im)
    /\ fn_out.val.ok
    /\ canvas_pixel(fn_out.val.im, 0, 0) = 1

\* the resized image is wider than the canvas
C37_WitnessWide ==
    /\ fn_out.some
    /\ fn_out.val.ok
    /\ fn_out.val.im.new_width > CanvasWidth
    /\ canvas_pixel(fn_out.val.im, 0, 0) = 1
    /\ canvas_pixel(fn_out.val.im, CanvasWidth - 1, 0) = 0

\* the cropped region is too tall for one column: the canvas stays empty
C37_WitnessTall ==
    /\ fn_out.some
    /\ fn_out.val.ok
    /\ fn_out.val.im.new_width = 0
    /\ canvas_pixel(fn_out.val.im, 0, 0) = 0

====
